---- MODULE Spec2Model ----
(***************************************************************************)
(* A model of the EVM simulation core of protosim:                         *)
(*   - the pre-cached state database PreCachedDB (src/src/evm/tycho_db.rs) *)
(*     over the in-memory AccountStorage,                                  *)
(*   - the streaming state client's realtime_messages feed                 *)
(*     (src/protosim/src/evm_simulation/tycho_client.rs).                  *)
(* Each part has its own specification over the shared variables.          *)
(***************************************************************************)
EXTENDS Integers, Sequences, FiniteSets, TLC

(***************************************************************************)
(* Bounds of the model.                                                    *)
(***************************************************************************)
\* storage values and balances range over 0..MaxVal
MaxVal == 1
\* block numbers of the headers handed to update / update_state: 1..MaxBlock
MaxBlock == 1
\* the remote sends at most MaxSent decodable frames
MaxSent == 32
\* an interpreter invocation makes at most MaxLookups lookups
MaxLookups == 2
\* gss is called with bounds in 0..MaxBound (from 0 or from the sign bit),
\* tol in 0..MaxTol, max_iter in 0..MaxIter
MaxBound == 5
MaxTol == 1
MaxIter == 3
\* the minimizer of the objective lies in 0..MaxMinimizer
MaxMinimizer == 11
\* the bytecode cache holds at most CacheCapacity entries (1000 in utils.rs)
CacheCapacity == 2
\* the 256-bit words of gss are WordBits wide
WordBits == 6

(***************************************************************************)
(* Option<T>: None is the empty sequence, Some(x) the one-element one.     *)
(***************************************************************************)
None == << >>
Some(x) == << x >>
IsSome(o) == o /= None
Unwrap(o) == o[1]
Opt(S) == {None} \cup {Some(x) : x \in S}

\* Result<T, E>
Ok(v) == [tag |-> "Ok", val |-> v]
Err(e) == [tag |-> "Err", val |-> e]
MissingAccount(address) == << "MissingAccount", address >>

\* HashMap<K, V>: a function whose domain is a finite subset of K
EmptyMap == [k \in {} |-> 0]
HashMaps(K, V) == UNION {[D -> V] : D \in SUBSET K}

Addr == {"a1", "a2"}
Slot == {"s1", "s2"}
Val == 0 .. MaxVal
Code == {"empty"}

\* rU256::ZERO
ZERO == 0

\* Bytecode::new_raw: the raw bytes, not yet analysed
Bytecode_new_raw(bytes) == [bytes |-> bytes, analysed |-> FALSE]

\* Bytecode::hash_slow: the keccak256 digest of the code's bytes
hash_slow(code) == IF code.bytes = "empty" THEN "KECCAK_EMPTY" ELSE "keccak_other"

\* AccountInfo::new(balance, nonce, code_hash, code)
AccountInfo_new(balance, nonce, code_hash, code) ==
    [balance |-> balance, nonce |-> nonce, code_hash |-> code_hash, code |-> Some(code)]

\* to_analysed: bytecode analysis of an account's code; the rest is kept
to_analysed(account_info) ==
    [account_info EXCEPT !.code =
        IF IsSome(@) THEN Some([Unwrap(@) EXCEPT !.analysed = TRUE]) ELSE None]

VARIABLES
    accounts,   \* PreCachedDBInner.accounts: address -> account record
    block,      \* PreCachedDBInner.block: Option<BlockHeader>
    panicked    \* whether the last call of update ended in a panic (an expect failed)

VARIABLES
    called,     \* the last call a client of the database made: [op, address, index]
    ret,        \* what that call returned
    missed      \* the addresses some read has answered with MissingAccount so far

VARIABLES
    phase,      \* "idle", "updated" (update_state returned), "reverted" (its revert map applied)
    pre,        \* the accounts before update_state
    upd,        \* the updates handed to update_state
    revert_map  \* the map update_state returned

VARIABLES
    pc,          \* the producer task of realtime_messages: "connect", "next", "send", "done"
    sent,        \* how many decodable frames the remote has sent; the next one is for block sent + 1
    last_frame,  \* what incoming_messages.next() returned last: a frame's kind, or "end"
    pending,     \* Option: the update the producer is sending
    chan,        \* the mpsc channel's queue
    tx_alive,    \* the Sender has not been dropped
    rx_alive,    \* the Receiver has not been dropped
    recv,        \* the updates the consumer has received, in order
    eos,         \* the consumer's recv has returned None
    exit,        \* why the producer task returned: "none", "dial", "close", "end"
    send_error,  \* "none", "failed" (a send returned Err), "read_on" (a frame was read after that)
    bad_at       \* -1, or the value of sent when the first undecodable text frame was dropped

VARIABLES
    wlock,       \* the RwLock's write guard is held
    rlock,       \* the number of read guards held
    wop,         \* the writing call in progress: "none", "init_account", "update", "update_state"
    wtodo,       \* what is left of that call: its statements and loop iterations, in order
    uncommitted, \* a writing call has changed the database and has not completed
    rpc,         \* the reader: "idle", "read" (guard taken), "present" (storage_ref's second read)
    rcall,       \* the lookup in progress: [op, address, index]
    rret,        \* what the reader's last lookup returned
    rcount,      \* the lookups the current interpreter invocation has completed
    rdirty,      \* the database changed since the current lookup took its guard
    rstale       \* the database changed since the invocation's first lookup took its guard

VARIABLES
    gss_pc,        \* gss: "idle", "probe" (past the entry test), "bracket" (in
                   \* bracket's while loop), "bracketed" (bracket has returned),
                   \* "loop", "done", "panic"
    f_min,         \* the objective f: its minimizer
    f_kind,        \* the objective f: its shape
    min_bound,     \* gss's min_bound
    max_bound,     \* gss's max_bound
    tol,           \* gss's tol
    max_iter,      \* gss's max_iter
    honour_bounds, \* gss's honour_bounds
    gss_h,         \* gss's h, the tracked width
    xc,            \* the lower probe
    yc,            \* f(xc)
    xd,            \* the upper probe
    yd,            \* f(xd)
    gss_iter,      \* the iterations of the for loop that have run
    f_calls,       \* how many times f has been evaluated
    narrow_at,     \* f_calls when max_bound - min_bound <= tol first held, or -1
    lo0,           \* min_bound when gss reached its tolerance test (line 27)
    hi0,           \* max_bound when gss reached its tolerance test (line 27)
    gss_ret        \* the pair gss returned

VARIABLES
    arg_lo,        \* the U256 gss was given as min_bound
    arg_hi,        \* the U256 gss was given as max_bound
    ya,            \* bracket's ya
    yb,            \* bracket's yb
    br_iter,       \* bracket's iter
    br_ret         \* the tuple bracket returned

VARIABLES
    BYTECODE_CACHE, \* the bytecode cache: path -> Bytecode, for the cached paths
    files,          \* the file system: path -> content, or NoFile
    first_loaded,   \* path -> what the first successful get_contract_bytecode
                    \* for the path returned (None before it)
    fn_call,        \* the last call of a function of protocol/vm and its arguments
    fn_ret          \* what that call returned, or Panicked

dbvars == << accounts, block, panicked >>
utilvars == << BYTECODE_CACHE, files, first_loaded, fn_call, fn_ret >>
gssvars == << gss_pc, f_min, f_kind, min_bound, max_bound, tol, max_iter, honour_bounds,
              gss_h, xc, yc, xd, yd, gss_iter, f_calls, narrow_at, lo0, hi0, gss_ret,
              arg_lo, arg_hi, ya, yb, br_iter, br_ret >>
concvars == << wlock, rlock, wop, wtodo, uncommitted, rpc, rcall, rret, rcount, rdirty, rstale >>
readvars == << called, ret, missed >>
revvars == << phase, pre, upd, revert_map >>
streamvars == << pc, sent, last_frame, pending, chan, tx_alive, rx_alive, recv, eos, exit,
                 send_error, bad_at >>
vars == << dbvars, readvars, revvars, streamvars, concvars, gssvars, utilvars >>
nonstream == << dbvars, readvars, revvars, concvars, gssvars, utilvars >>

(***************************************************************************)
(* AccountStorage (crate::evm::account_storage), after spec section 4.1.   *)
(***************************************************************************)
\* init_account(address, info, permanent_storage?, mocked): insert or replace
storage_init_account(accts, address, info, permanent_storage, mocked) ==
    [a \in DOMAIN accts \cup {address} |->
        IF a = address
        THEN [info |-> info,
              permanent_storage |->
                  IF IsSome(permanent_storage) THEN Unwrap(permanent_storage) ELSE EmptyMap,
              temp_storage |-> EmptyMap,
              mocked |-> mocked]
        ELSE accts[a]]

\* update_account(address, state_update): each present field replaces the
\* corresponding cell of permanent storage; a silent no-op on an absent account
update_account(accts, address, update) ==
    IF address \notin DOMAIN accts THEN accts
    ELSE LET acc == accts[address]
             bal == IF IsSome(update.balance) THEN Unwrap(update.balance)
                    ELSE acc.info.balance
             new == IF IsSome(update.storage) THEN Unwrap(update.storage) ELSE EmptyMap
             perm == [s \in DOMAIN acc.permanent_storage \cup DOMAIN new |->
                         IF s \in DOMAIN new THEN new[s] ELSE acc.permanent_storage[s]]
         IN [accts EXCEPT ![address] =
                [acc EXCEPT !.info.balance = bal, !.permanent_storage = perm]]

\* get_account_info(address) -> optional info
get_account_info(accts, address) ==
    IF address \in DOMAIN accts THEN Some(accts[address].info) ELSE None

\* get_storage(address, slot) -> optional value: temporary first, else permanent
get_storage(accts, address, index) ==
    IF address \notin DOMAIN accts THEN None
    ELSE IF index \in DOMAIN accts[address].temp_storage
         THEN Some(accts[address].temp_storage[index])
    ELSE IF index \in DOMAIN accts[address].permanent_storage
         THEN Some(accts[address].permanent_storage[index])
    ELSE None

\* account_present(address) -> bool
account_present(accts, address) == address \in DOMAIN accts

(***************************************************************************)
(* PreCachedDB: the operations as functions of the database value.         *)
(***************************************************************************)
\* PreCachedDB::init_account: always flags the account mocked
init_account(accts, address, account, permanent_storage) ==
    storage_init_account(accts, address, to_analysed(account), permanent_storage, TRUE)

\* a Creation that is applied as an update of the account: an existing
\* account keeps what the update does not name, an absent one is not created
apply_account_update_creation_updates(accts, update) ==
    IF update.change = "Deletion" THEN [accounts |-> accts, panicked |-> FALSE]
    ELSE [accounts |-> update_account(accts, update.address,
                          [storage |-> Some(update.slots), balance |-> update.balance]),
          panicked |-> update.change = "Creation" /\
                       (update.code = None \/ update.balance = None)]

\* an Update that initialises the account it does not find
apply_account_update_update_creates(accts, update) ==
    IF update.change = "Deletion" THEN [accounts |-> accts, panicked |-> FALSE]
    ELSE IF (update.change = "Update" /\ ~account_present(accts, update.address))
            \/ (update.change = "Creation" /\ IsSome(update.code) /\ IsSome(update.balance))
         THEN [accounts |-> storage_init_account(accts, update.address,
                                AccountInfo_new(
                                    IF IsSome(update.balance) THEN Unwrap(update.balance) ELSE 0,
                                    0,
                                    hash_slow(Bytecode_new_raw("empty")),
                                    Bytecode_new_raw("empty")),
                                Some(update.slots), TRUE),
               panicked |-> FALSE]
         ELSE IF update.change = "Creation" THEN [accounts |-> accts, panicked |-> TRUE]
         ELSE [accounts |-> update_account(accts, update.address,
                                [storage |-> Some(update.slots), balance |-> update.balance]),
               panicked |-> FALSE]

\* a Deletion that removes the account it names
apply_account_update_deletion_removes(accts, update) ==
    IF update.change = "Deletion"
    THEN [accounts |-> [a \in DOMAIN accts \ {update.address} |-> accts[a]],
          panicked |-> FALSE]
    ELSE IF update.change = "Update"
    THEN [accounts |-> update_account(accts, update.address,
                           [storage |-> Some(update.slots), balance |-> update.balance]),
          panicked |-> FALSE]
    ELSE IF update.code = None \/ update.balance = None
    THEN [accounts |-> accts, panicked |-> TRUE]
    ELSE [accounts |-> storage_init_account(accts, update.address,
                           AccountInfo_new(Unwrap(update.balance), 0,
                               hash_slow(Bytecode_new_raw(Unwrap(update.code))),
                               Bytecode_new_raw(Unwrap(update.code))),
                           Some(update.slots), TRUE),
          panicked |-> FALSE]

\* one iteration of the loop of PreCachedDB::update; panicked when an expect fails
apply_account_update(accts, update) ==
    CASE update.change = "Update" ->
            [accounts |-> update_account(accts, update.address,
                              [storage |-> Some(update.slots), balance |-> update.balance]),
             panicked |-> FALSE]
      [] update.change = "Deletion" ->
            [accounts |-> accts, panicked |-> FALSE]
      [] update.change = "Creation" ->
            IF update.code = None \/ update.balance = None
            THEN [accounts |-> accts, panicked |-> TRUE]
            ELSE LET code == Bytecode_new_raw(Unwrap(update.code))
                     balance == Unwrap(update.balance)
                 IN [accounts |-> storage_init_account(accts, update.address,
                                      AccountInfo_new(balance, 0, hash_slow(code), code),
                                      Some(update.slots), TRUE),
                     panicked |-> FALSE]

\* the loop of PreCachedDB::update over the batch, left at the first panic
RECURSIVE apply_account_updates(_, _)
apply_account_updates(accts, account_updates) ==
    IF account_updates = << >> THEN [accounts |-> accts, panicked |-> FALSE]
    ELSE LET r == apply_account_update(accts, Head(account_updates))
         IN IF r.panicked THEN r
            ELSE apply_account_updates(r.accounts, Tail(account_updates))

\* the revert entry update_state records for one address before it updates it
revert_entry(accts, address, update_info) ==
    [balance |-> IF IsSome(get_account_info(accts, address))
                 THEN Some(Unwrap(get_account_info(accts, address)).balance)
                 ELSE None,
     storage |-> IF IsSome(update_info.storage)
                 THEN Some([index \in {i \in DOMAIN Unwrap(update_info.storage) :
                                          IsSome(get_storage(accts, address, i))} |->
                               Unwrap(get_storage(accts, address, index))])
                 ELSE None]

\* the loop of PreCachedDB::update_state over the entries of updates
RECURSIVE update_state_loop(_, _, _, _)
update_state_loop(accts, updates, todo, revert_updates) ==
    IF todo = {} THEN [accounts |-> accts, revert_updates |-> revert_updates]
    ELSE LET address == CHOOSE a \in todo : TRUE
             entry == revert_entry(accts, address, updates[address])
         IN update_state_loop(
                update_account(accts, address, updates[address]),
                updates,
                todo \ {address},
                [a \in DOMAIN revert_updates \cup {address} |->
                    IF a = address THEN entry ELSE revert_updates[a]])

update_state(accts, updates) ==
    update_state_loop(accts, updates, DOMAIN updates, EmptyMap)

\* PreCachedDB::update as a whole: the header is assigned first, then the batch
\* is applied; the database it leaves is [accounts, block], with panicked set
\* when an expect failed on the way
PreCachedDB_update(accts, account_updates, blk) ==
    LET r == apply_account_updates(accts, account_updates)
    IN [accounts |-> r.accounts, block |-> blk, panicked |-> r.panicked]

\* PreCachedDB::update_state as a whole: the header is always assigned
PreCachedDB_update_state(accts, updates, blk) ==
    LET r == update_state(accts, updates)
    IN [accounts |-> r.accounts, block |-> Some(blk), revert_updates |-> r.revert_updates]

\* DatabaseRef::basic_ref
basic_ref(accts, address) ==
    IF IsSome(get_account_info(accts, address))
    THEN Ok(Some(Unwrap(get_account_info(accts, address))))
    ELSE Err(MissingAccount(address))

\* storage_ref without the zero default: an untracked slot is an error
storage_ref_untracked_is_error(accts, address, index) ==
    IF IsSome(get_storage(accts, address, index))
    THEN Ok(Unwrap(get_storage(accts, address, index)))
    ELSE Err(MissingAccount(address))

\* storage_ref without the account_present test: every miss reads as zero
storage_ref_miss_is_zero(accts, address, index) ==
    IF IsSome(get_storage(accts, address, index))
    THEN Ok(Unwrap(get_storage(accts, address, index)))
    ELSE Ok(ZERO)

\* DatabaseRef::storage_ref
storage_ref(accts, address, index) ==
    IF IsSome(get_storage(accts, address, index))
    THEN Ok(Unwrap(get_storage(accts, address, index)))
    ELSE IF account_present(accts, address)
         THEN Ok(ZERO)
         ELSE Err(MissingAccount(address))

\* a clear_temp_storage that empties every storage map of every account
clear_temp_storage_clears_all(accts) ==
    [a \in DOMAIN accts |->
        [accts[a] EXCEPT !.temp_storage = EmptyMap, !.permanent_storage = EmptyMap]]

\* PreCachedDB::clear_temp_storage: logs that there is nothing to clear
clear_temp_storage(accts) == accts

\* B256::default(): the zero hash
B256_default == "ZERO_HASH"

\* DatabaseRef::block_hash_ref: the parameter _number is not read
block_hash_ref(blk, number) ==
    IF IsSome(blk) THEN Ok(Unwrap(blk).hash) ELSE Ok(B256_default)

\* PreCachedDB::block_number
block_number(blk) == IF IsSome(blk) THEN Some(Unwrap(blk).number) ELSE None

(***************************************************************************)
(* Inputs of the calls.                                                    *)
(***************************************************************************)
Headers == {[number |-> n, hash |-> "0xb1"] : n \in 1 .. MaxBlock}

\* the storage maps handed to a call name slots of InputSlot
InputSlot == {"s1"}
InputMaps == HashMaps(InputSlot, Val)

InitInfos ==
    {[balance |-> b, nonce |-> 0, code_hash |-> "KECCAK_EMPTY", code |-> c] :
        b \in Val, c \in Opt({Bytecode_new_raw(x) : x \in Code})}

\* Creation updates that carry both the code and the balance
Creations ==
    {[address |-> a, slots |-> m, balance |-> Some(b), code |-> Some(c), change |-> "Creation"] :
        a \in Addr, m \in InputMaps, b \in Val, c \in Code}

\* Creation updates that lack the code, the balance or both
BadCreations ==
    {[address |-> a, slots |-> EmptyMap, balance |-> b, code |-> c, change |-> "Creation"] :
        a \in Addr, b \in Opt(Val), c \in Opt(Code)}
    \ Creations

\* Creation reads every field; Update reads slots and balance; Deletion reads none
AccountUpdates ==
    Creations \cup BadCreations
    \cup {[address |-> a, slots |-> m, balance |-> b, code |-> None, change |-> "Update"] :
            a \in Addr, m \in InputMaps, b \in Opt(Val)}
    \cup {[address |-> a, slots |-> m, balance |-> None, code |-> None, change |-> "Deletion"] :
            a \in Addr, m \in InputMaps}

StateUpdates == {[storage |-> s, balance |-> b] : s \in Opt(InputMaps), b \in Opt(Val)}

(***************************************************************************)
(* The calls as actions, each the whole call under its lock.               *)
(***************************************************************************)
Unit == [tag |-> "Unit", val |-> 0]
NoCall == [op |-> "none", address |-> "-", index |-> "-"]

InitDB ==
    /\ accounts = EmptyMap
    /\ block = None
    /\ panicked = FALSE

InitRead ==
    /\ called = NoCall
    /\ ret = Unit
    /\ missed = {}

InitRevert ==
    /\ phase = "idle"
    /\ pre = EmptyMap
    /\ upd = EmptyMap
    /\ revert_map = EmptyMap

InitAccount(address, account, permanent_storage) ==
    /\ accounts' = init_account(accounts, address, account, permanent_storage)
    /\ panicked' = FALSE
    /\ UNCHANGED block

Update(account_updates, blk) ==
    LET r == PreCachedDB_update(accounts, account_updates, blk)
    IN /\ block' = r.block
       /\ accounts' = r.accounts
       /\ panicked' = r.panicked

UpdateState(updates, blk) ==
    LET r == PreCachedDB_update_state(accounts, updates, blk)
    IN /\ block' = r.block
       /\ accounts' = r.accounts
       /\ panicked' = FALSE

ClearTempStorage ==
    /\ accounts' = clear_temp_storage(accounts)
    /\ UNCHANGED << block, panicked >>

(***************************************************************************)
(* Spec: the database under any sequence of its writing calls.             *)
(***************************************************************************)
NextDB ==
    \/ \E a \in Addr, i \in InitInfos, p \in Opt(InputMaps) :
          InitAccount(a, i, p) /\ UNCHANGED << readvars, revvars, streamvars, concvars, gssvars, utilvars >>
    \/ \E u \in AccountUpdates, b \in Opt(Headers) :
          Update(<< u >>, b) /\ UNCHANGED << readvars, revvars, streamvars, concvars, gssvars, utilvars >>
    \/ \E a \in Addr, u \in StateUpdates, b \in Headers :
          UpdateState([x \in {a} |-> u], b) /\ UNCHANGED << readvars, revvars, streamvars, concvars, gssvars, utilvars >>
    \/ ClearTempStorage /\ UNCHANGED << readvars, revvars, streamvars, concvars, gssvars, utilvars >>

InitStream ==
    /\ pc = "connect"
    /\ sent = 0
    /\ last_frame = "none"
    /\ pending = None
    /\ chan = << >>
    /\ tx_alive = TRUE
    /\ rx_alive = TRUE
    /\ recv = << >>
    /\ eos = FALSE
    /\ exit = "none"
    /\ send_error = "none"
    /\ bad_at = -1

InitGss ==
    /\ gss_pc = "idle"
    /\ f_min = 0
    /\ f_kind = "abs"
    /\ min_bound = 0
    /\ max_bound = 0
    /\ tol = 0
    /\ max_iter = 0
    /\ honour_bounds = TRUE
    /\ gss_h = 0
    /\ xc = 0
    /\ yc = 0
    /\ xd = 0
    /\ yd = 0
    /\ gss_iter = 0
    /\ f_calls = 0
    /\ narrow_at = -1
    /\ lo0 = 0
    /\ hi0 = 0
    /\ gss_ret = << >>
    /\ arg_lo = 0
    /\ arg_hi = 0
    /\ ya = 0
    /\ yb = 0
    /\ br_iter = 0
    /\ br_ret = << >>

\* the paths get_contract_bytecode is called with, and what a file can hold
Paths == {"p1", "p2", "p3"}
Contents == {"empty", "c1"}
NoFile == "no file"
NoFnCall == [op |-> "none", arg |-> << >>]

InitUtil ==
    /\ BYTECODE_CACHE = EmptyMap
    /\ files = [p \in Paths |-> NoFile]
    /\ first_loaded = [p \in Paths |-> None]
    /\ fn_call = NoFnCall
    /\ fn_ret = Unit

InitConc ==
    /\ wlock = FALSE
    /\ rlock = 0
    /\ wop = "none"
    /\ wtodo = << >>
    /\ uncommitted = FALSE
    /\ rpc = "idle"
    /\ rcall = NoCall
    /\ rret = Unit
    /\ rcount = 0
    /\ rdirty = FALSE
    /\ rstale = FALSE

Init == InitDB /\ InitRead /\ InitRevert /\ InitStream /\ InitConc /\ InitGss /\ InitUtil

Spec == Init /\ [][NextDB]_vars

C12_CreationUpdate ==
    \A u \in Creations, h \in Headers :
        LET r == PreCachedDB_update(accounts, << u >>, Some(h))
            a == u.address
            code == Bytecode_new_raw(Unwrap(u.code))
        IN /\ ~r.panicked
           /\ account_present(r.accounts, a)
           /\ r.accounts[a].mocked
           /\ basic_ref(r.accounts, a) =
                  Ok(Some([balance |-> Unwrap(u.balance), nonce |-> 0,
                           code_hash |-> hash_slow(code), code |-> Some(code)]))
           /\ \A s \in DOMAIN u.slots : storage_ref(r.accounts, a, s) = Ok(u.slots[s])
           /\ \A s \in Slot \ DOMAIN u.slots : get_storage(r.accounts, a, s) = None
           /\ block_number(r.block) = Some(h.number)
           /\ \A x \in DOMAIN accounts \ {a} : r.accounts[x] = accounts[x]

\* a Creation update has replaced an account: the first account was created
\* with a tracked slot, the second one lost the slot init_account gave it
C12_Witness ==
    /\ ~panicked
    /\ IsSome(block)
    /\ \E a \in DOMAIN accounts :
          /\ IsSome(accounts[a].info.code)
          /\ ~Unwrap(accounts[a].info.code).analysed
          /\ accounts[a].info.balance = 1
          /\ storage_ref(accounts, a, "s1") = Ok(1)
    /\ \E a \in DOMAIN accounts :
          /\ IsSome(accounts[a].info.code)
          /\ ~Unwrap(accounts[a].info.code).analysed
          /\ DOMAIN accounts[a].permanent_storage = {}

\* the Update updates that name address a
UpdatesOf(a) == {u \in AccountUpdates : u.change = "Update" /\ u.address = a}

SmallBatches == {<< >>} \cup {<< u >> : u \in AccountUpdates \ BadCreations}

\* C14: update(_, Some(h)) and update_state(_, h) set the current header to h,
\* also with no updates, and block_number() then returns h.number;
\* update(_, None) leaves the attached header as it was.
C14_HeaderIsMostRecentSupplied ==
    /\ \A batch \in SmallBatches, h \in Headers :
          /\ PreCachedDB_update(accounts, batch, Some(h)).block = Some(h)
          /\ block_number(PreCachedDB_update(accounts, batch, Some(h)).block) = Some(h.number)
    /\ \A h \in Headers :
          /\ PreCachedDB_update_state(accounts, EmptyMap, h).block = Some(h)
          /\ block_number(PreCachedDB_update_state(accounts, EmptyMap, h).block) = Some(h.number)
    /\ \A batch \in SmallBatches :
          PreCachedDB_update(accounts, batch, None).block = block

\* C30: update is all-or-nothing: when an account update of the batch fails
\* (a Creation update without code or balance), the accounts and the current
\* header are what they were before the call.
C30_UpdateAllOrNothing ==
    \A batch \in SmallBatches, bad \in BadCreations, b \in Opt(Headers) :
        LET r == PreCachedDB_update(accounts, batch \o << bad >>, b)
        IN r.panicked => r.accounts = accounts /\ r.block = block

\* C16: block_hash_ref(n) never returns an error; it returns the hash of the
\* attached header when a header is attached and n is that header's number,
\* and the zero hash in every other case.
C16_BlockHashRef ==
    \A n \in 0 .. MaxBlock :
        block_hash_ref(block, n) =
            Ok(IF IsSome(block) /\ Unwrap(block).number = n
               THEN Unwrap(block).hash
               ELSE B256_default)

\* C17: after clear_temp_storage every account's info and permanent storage
\* are as before the call, and no account holds a temporary value: every
\* get_storage result is the permanent one.
C17_ClearTempStorage ==
    LET after == clear_temp_storage(accounts)
    IN /\ DOMAIN after = DOMAIN accounts
       /\ \A a \in DOMAIN accounts :
             /\ after[a].info = accounts[a].info
             /\ after[a].permanent_storage = accounts[a].permanent_storage
             /\ after[a].temp_storage = EmptyMap
             /\ \A s \in Slot :
                   get_storage(after, a, s) =
                       IF s \in DOMAIN accounts[a].permanent_storage
                       THEN Some(accounts[a].permanent_storage[s])
                       ELSE None

\* both accounts are present, one created by the stream and one initialised,
\* each with a tracked permanent slot
C17_Witness ==
    /\ DOMAIN accounts = Addr
    /\ \A a \in Addr : get_storage(clear_temp_storage(accounts), a, "s1") = Some(1)
    /\ \E a \in Addr : /\ IsSome(accounts[a].info.code)
                        /\ ~Unwrap(accounts[a].info.code).analysed
    /\ \E a \in Addr : accounts[a].info.code = None

\* the Deletion updates, with whatever slots, balance and code they carry
Deletions ==
    {[address |-> a, slots |-> m, balance |-> b, code |-> c, change |-> "Deletion"] :
        a \in Addr, m \in InputMaps, b \in Opt(Val), c \in Opt(Code)}

\* C18: a Deletion update is ignored: after the batch every account, the named
\* one included, is present with the info, storage and mocked flag it had.
C18_DeletionIgnored ==
    \A u \in Deletions, b \in Opt(Headers) :
        LET r == PreCachedDB_update(accounts, << u >>, b)
        IN /\ ~r.panicked
           /\ r.accounts = accounts
           /\ r.block = b

\* the named account is present with a balance, a tracked slot and code, and a
\* header is attached
C18_Witness ==
    /\ IsSome(block)
    /\ Unwrap(block).number = MaxBlock
    /\ \E a \in DOMAIN accounts :
          /\ accounts[a].mocked
          /\ accounts[a].info.balance = 1
          /\ IsSome(accounts[a].info.code)
          /\ accounts[a].permanent_storage = [s \in {"s1"} |-> 1]
          /\ PreCachedDB_update(accounts,
                 << [address |-> a, slots |-> EmptyMap, balance |-> Some(0),
                     code |-> None, change |-> "Deletion"] >>, block).accounts[a]
             = accounts[a]

(***************************************************************************)
(* SpecRead: a client reading accounts it may first have to initialise.    *)
(***************************************************************************)
InitAccountCall(address, account, permanent_storage) ==
    /\ InitAccount(address, account, permanent_storage)
    /\ called' = [op |-> "init_account", address |-> address, index |-> "-"]
    /\ ret' = Unit
    /\ UNCHANGED << missed, revvars, streamvars, concvars, gssvars, utilvars >>

BasicRefCall(address) ==
    /\ called' = [op |-> "basic_ref", address |-> address, index |-> "-"]
    /\ ret' = basic_ref(accounts, address)
    /\ missed' = IF ret'.tag = "Err" THEN missed \cup {address} ELSE missed
    /\ UNCHANGED << dbvars, revvars, streamvars, concvars, gssvars, utilvars >>

StorageRefCall(address, index) ==
    /\ called' = [op |-> "storage_ref", address |-> address, index |-> index]
    /\ ret' = storage_ref(accounts, address, index)
    /\ missed' = IF ret'.tag = "Err" THEN missed \cup {address} ELSE missed
    /\ UNCHANGED << dbvars, revvars, streamvars, concvars, gssvars, utilvars >>

NextRead ==
    \/ \E a \in Addr, i \in InitInfos, p \in Opt(InputMaps) : InitAccountCall(a, i, p)
    \/ \E a \in Addr : BasicRefCall(a)
    \/ \E a \in Addr, s \in Slot : StorageRefCall(a, s)

SpecRead == Init /\ [][NextRead]_vars

IsRead(c) == c.op \in {"basic_ref", "storage_ref"}

\* C3: a read of an absent address returns MissingAccount(address) and leaves
\* the database as it was; once the address is initialised the same reads succeed.
C3_MissingAccount ==
    /\ [](/\ \A a \in Addr \ DOMAIN accounts :
                /\ basic_ref(accounts, a) = Err(MissingAccount(a))
                /\ \A s \in Slot : storage_ref(accounts, a, s) = Err(MissingAccount(a))
          /\ IsRead(called) =>
                IF called.address \in DOMAIN accounts
                THEN ret.tag = "Ok"
                ELSE ret = Err(MissingAccount(called.address)))
    /\ [][IsRead(called') => accounts' = accounts /\ block' = block]_vars

\* a read that failed with MissingAccount succeeds after init_account
C3_Witness ==
    /\ IsRead(called)
    /\ called.address \in missed
    /\ called.address \in DOMAIN accounts
    /\ ret.tag = "Ok"

(***************************************************************************)
(* SpecRevert: update_state on an initialised database, then update_state  *)
(* with the map the first call returned.                                   *)
(***************************************************************************)
UpdateMaps == UNION {[D -> StateUpdates] : D \in SUBSET Addr}

InitAccountIdle(address, account, permanent_storage) ==
    /\ phase = "idle"
    /\ InitAccount(address, account, permanent_storage)
    /\ UNCHANGED << readvars, revvars, streamvars, concvars, gssvars, utilvars >>

UpdateStateCall(updates, blk) ==
    /\ phase = "idle"
    /\ UpdateState(updates, blk)
    /\ phase' = "updated"
    /\ pre' = accounts
    /\ upd' = updates
    /\ revert_map' = update_state(accounts, updates).revert_updates
    /\ UNCHANGED << readvars, streamvars, concvars, gssvars, utilvars >>

RevertCall(previous_block) ==
    /\ phase = "updated"
    /\ UpdateState(revert_map, previous_block)
    /\ phase' = "reverted"
    /\ UNCHANGED << pre, upd, revert_map, readvars, streamvars, concvars, gssvars, utilvars >>

NextRevert ==
    \/ \E a \in Addr, i \in InitInfos, p \in Opt(InputMaps) : InitAccountIdle(a, i, p)
    \/ \E u \in UpdateMaps, b \in Headers : UpdateStateCall(u, b)
    \/ \E b \in Headers : RevertCall(b)

SpecRevert == Init /\ [][NextRevert]_vars

NamedSlots(updates, a) ==
    IF IsSome(updates[a].storage) THEN DOMAIN Unwrap(updates[a].storage) ELSE {}

\* C1: after update_state(updates, block) and update_state(revert_map, previous_block)
\* every address and slot named in updates has the balance and the slot content
\* (tracked value, or untracked) it had before the first call.
C1_RevertRestores ==
    phase = "reverted" =>
        \A a \in DOMAIN upd :
            /\ basic_ref(accounts, a) = basic_ref(pre, a)
            /\ \A s \in NamedSlots(upd, a) :
                  get_storage(accounts, a, s) = get_storage(pre, a, s)

(***************************************************************************)
(* SpecStream: TychoClient::realtime_messages.  The spawned producer task  *)
(* reads the remote's frames and sends the decoded ones into a bounded     *)
(* channel; the caller receives from it, and may drop the receiver.        *)
(* The remote's n-th decodable frame is the document of block n.           *)
(***************************************************************************)
\* mpsc::channel(30)
ChannelCapacity == 30

\* the text of a frame: the JSON document of a block, or text that is none
ValidText(n) == [json |-> TRUE, block |-> n]
GarbageText == [json |-> FALSE, block |-> 0]

\* serde_json::from_str::<BlockStateChanges>(&text)
from_str(text) ==
    IF text.json THEN Ok([block |-> text.block]) ELSE Err("deserialize")

\* connect_async(&ws_url) returned Ok: the task goes on to read the stream
ConnectOk ==
    /\ pc = "connect"
    /\ pc' = "next"
    /\ UNCHANGED << sent, last_frame, pending, chan, tx_alive, rx_alive, recv, eos, exit,
                    send_error, bad_at >>
    /\ UNCHANGED nonstream

\* connect_async(&ws_url) returned Err: logged, the task returns and tx is dropped
ConnectErr ==
    /\ pc = "connect"
    /\ pc' = "done"
    /\ tx_alive' = FALSE
    /\ exit' = "dial"
    /\ UNCHANGED << sent, last_frame, pending, chan, rx_alive, recv, eos, send_error, bad_at >>
    /\ UNCHANGED nonstream

\* a frame is read after a send has failed
ReadOn == IF send_error = "failed" THEN "read_on" ELSE send_error

\* a text frame that does not deserialize ends the task
OnTextReturnOnError(text) ==
    LET r == from_str(text)
    IN IF r.tag = "Ok"
       THEN /\ pending' = Some(r.val)
            /\ pc' = "send"
            /\ last_frame' = "text"
            /\ UNCHANGED << bad_at, tx_alive, exit >>
       ELSE /\ last_frame' = "bad_text"
            /\ bad_at' = IF bad_at = -1 THEN sent' ELSE bad_at
            /\ pc' = "done"
            /\ tx_alive' = FALSE
            /\ exit' = "end"
            /\ UNCHANGED pending

\* Ok(Message::Text(text)): deserialize, then send the update or log the error
OnText(text) ==
    LET r == from_str(text)
    IN IF r.tag = "Ok"
       THEN /\ pending' = Some(r.val)
            /\ pc' = "send"
            /\ last_frame' = "text"
            /\ UNCHANGED << bad_at, tx_alive, exit >>
       ELSE /\ last_frame' = "bad_text"
            /\ bad_at' = IF bad_at = -1 THEN sent' ELSE bad_at
            /\ UNCHANGED << pending, pc, tx_alive, exit >>

\* the remote sends the document of the next block
ReadValidText ==
    /\ pc = "next"
    /\ sent < MaxSent
    /\ sent' = sent + 1
    /\ OnText(ValidText(sent + 1))
    /\ send_error' = ReadOn
    /\ UNCHANGED << chan, rx_alive, recv, eos >>
    /\ UNCHANGED nonstream

\* the remote sends a text frame that is no such document
ReadGarbageText ==
    /\ pc = "next"
    /\ sent' = sent
    /\ OnText(GarbageText)
    /\ send_error' = ReadOn
    /\ UNCHANGED << chan, rx_alive, recv, eos >>
    /\ UNCHANGED nonstream

\* a Close frame that is only logged
OnCloseContinue ==
    /\ last_frame' = "close"
    /\ UNCHANGED << pc, tx_alive, exit >>

\* Ok(Message::Close(_)): drop(tx); return
OnClose ==
    /\ last_frame' = "close"
    /\ pc' = "done"
    /\ tx_alive' = FALSE
    /\ exit' = "close"

ReadClose ==
    /\ pc = "next"
    /\ OnClose
    /\ send_error' = ReadOn
    /\ UNCHANGED << sent, pending, chan, rx_alive, recv, eos, bad_at >>
    /\ UNCHANGED nonstream

\* Ok(unknown_msg): binary, ping, pong; logged
ReadOther ==
    /\ pc = "next"
    /\ last_frame' = "other"
    /\ send_error' = ReadOn
    /\ UNCHANGED << pc, sent, pending, chan, tx_alive, rx_alive, recv, eos, exit, bad_at >>
    /\ UNCHANGED nonstream

\* Err(e): logged, and the loop goes on to the next item of the stream
ReadError ==
    /\ pc = "next"
    /\ last_frame' = "error"
    /\ send_error' = ReadOn
    /\ UNCHANGED << pc, sent, pending, chan, tx_alive, rx_alive, recv, eos, exit, bad_at >>
    /\ UNCHANGED nonstream

\* incoming_messages.next() returned None: the loop and the task end, tx is dropped
StreamEnd ==
    /\ pc = "next"
    /\ pc' = "done"
    /\ tx_alive' = FALSE
    /\ exit' = "end"
    /\ last_frame' = "end"
    /\ UNCHANGED << sent, pending, chan, rx_alive, recv, eos, send_error, bad_at >>
    /\ UNCHANGED nonstream

\* a send that gives the update up when the queue is full (try_send)
TxSendTry ==
    /\ pc = "send"
    /\ IF ~rx_alive
       THEN /\ send_error' = IF send_error = "none" THEN "failed" ELSE send_error
            /\ chan' = chan
       ELSE /\ chan' = IF Len(chan) < ChannelCapacity
                       THEN Append(chan, Unwrap(pending)) ELSE chan
            /\ send_error' = send_error
    /\ pending' = None
    /\ pc' = "next"
    /\ UNCHANGED << sent, last_frame, tx_alive, rx_alive, recv, eos, exit, bad_at >>
    /\ UNCHANGED nonstream

\* a send into a queue without a capacity (unbounded channel)
TxSendUnbounded ==
    /\ pc = "send"
    /\ IF ~rx_alive
       THEN /\ send_error' = IF send_error = "none" THEN "failed" ELSE send_error
            /\ chan' = chan
       ELSE /\ chan' = Append(chan, Unwrap(pending))
            /\ send_error' = send_error
    /\ pending' = None
    /\ pc' = "next"
    /\ UNCHANGED << sent, last_frame, tx_alive, rx_alive, recv, eos, exit, bad_at >>
    /\ UNCHANGED nonstream

\* tx.send(update).await: Err when the receiver is gone (logged, the loop goes
\* on); otherwise waits for room in the queue and enqueues
TxSend ==
    /\ pc = "send"
    /\ IF ~rx_alive
       THEN /\ send_error' = IF send_error = "none" THEN "failed" ELSE send_error
            /\ chan' = chan
       ELSE /\ Len(chan) < ChannelCapacity
            /\ chan' = Append(chan, Unwrap(pending))
            /\ send_error' = send_error
    /\ pending' = None
    /\ pc' = "next"
    /\ UNCHANGED << sent, last_frame, tx_alive, rx_alive, recv, eos, exit, bad_at >>
    /\ UNCHANGED nonstream

\* the consumer's rx.recv().await returns Some(update)
ConsumerRecv ==
    /\ rx_alive
    /\ chan /= << >>
    /\ recv' = Append(recv, Head(chan))
    /\ chan' = Tail(chan)
    /\ UNCHANGED << pc, sent, last_frame, pending, tx_alive, rx_alive, eos, exit,
                    send_error, bad_at >>
    /\ UNCHANGED nonstream

\* the consumer's rx.recv().await returns None: queue empty and the sender dropped
ConsumerEos ==
    /\ rx_alive
    /\ chan = << >>
    /\ ~tx_alive
    /\ ~eos
    /\ eos' = TRUE
    /\ UNCHANGED << pc, sent, last_frame, pending, chan, tx_alive, rx_alive, recv, exit,
                    send_error, bad_at >>
    /\ UNCHANGED nonstream

\* the consumer drops the Receiver: the channel closes and its queue is dropped
ConsumerDrop ==
    /\ rx_alive
    /\ rx_alive' = FALSE
    /\ chan' = << >>
    /\ UNCHANGED << pc, sent, last_frame, pending, tx_alive, recv, eos, exit,
                    send_error, bad_at >>
    /\ UNCHANGED nonstream

ProducerStep ==
    \/ ConnectOk
    \/ ConnectErr
    \/ ReadValidText
    \/ ReadGarbageText
    \/ ReadClose
    \/ ReadOther
    \/ ReadError
    \/ StreamEnd
    \/ TxSend

NextStream ==
    \/ ConnectOk
    \/ ConnectErr
    \/ ReadValidText
    \/ ReadGarbageText
    \/ ReadClose
    \/ ReadOther
    \/ ReadError
    \/ StreamEnd
    \/ TxSend
    \/ ConsumerRecv
    \/ ConsumerEos
    \/ ConsumerDrop

SpecStream == Init /\ [][NextStream]_vars

\* the updates the remote's decodable frames decode to, in the remote's order
Decoded == [n \in 1 .. sent |-> [block |-> n]]
InFlight == chan \o pending
IsPrefix(p, q) == Len(p) <= Len(q) /\ \A n \in 1 .. Len(p) : p[n] = q[n]

\* C6: what the consumer has received is a prefix of the updates the remote's
\* decodable text frames decode to, in the remote's order; while the consumer
\* is alive every decoded update is received, queued or being sent, in order,
\* none twice and none left out.
C6_FrameOrder ==
    /\ IsPrefix(recv, Decoded)
    /\ rx_alive => recv \o InFlight = Decoded

\* three updates received in order, more queued behind them and one being sent
C6_Witness ==
    /\ rx_alive
    /\ Len(recv) >= 3
    /\ Len(chan) >= 2
    /\ pending /= None

\* C7: once a send has failed because the receiver was dropped, the producer
\* reads no further frame.
C7_ProducerStopsAfterFailedSend == send_error /= "read_on"

\* C8: the queue never holds more than 30 updates; with the queue full the
\* producer stays on its send, keeping the update, and reads no frame; no
\* update is lost to a slow consumer.
C8_BoundedQueue ==
    /\ Len(chan) <= ChannelCapacity
    /\ (pc = "send" /\ rx_alive /\ Len(chan) = ChannelCapacity) =>
          /\ pending = Some([block |-> sent])
          /\ ~ ENABLED ProducerStep
    /\ rx_alive => Len(recv) + Len(chan) + Len(pending) = sent

\* the queue is full and the producer waits with the next update
C8_Witness ==
    /\ Len(chan) = ChannelCapacity
    /\ pc = "send"
    /\ rx_alive

\* C9: after a failed dial or a Close frame the task has returned and dropped
\* the sender: nothing is enqueued any more, a live consumer can still receive
\* what is queued and then gets end-of-stream, and by then has received every
\* update that was enqueued.
C9_ProducerReleased ==
    /\ []((exit = "dial" \/ last_frame = "close") =>
             /\ pc = "done"
             /\ ~tx_alive
             /\ pending = None
             /\ rx_alive => recv \o chan = Decoded
             /\ (rx_alive /\ chan /= << >>) => ENABLED ConsumerRecv
             /\ (rx_alive /\ chan = << >> /\ ~eos) => ENABLED ConsumerEos
             /\ eos => (chan = << >> /\ recv = Decoded))
    /\ [][~tx_alive => (~tx_alive' /\ Len(chan') <= Len(chan))]_vars

\* the remote closed, and the consumer received the queued updates and then end-of-stream
C9_Witness ==
    /\ exit = "close"
    /\ eos
    /\ Len(recv) >= 2

\* C10: a text frame that does not decode is dropped and the producer keeps
\* reading; the decodable frames after it still reach a live consumer in order.
C10_DecodeFailureDropsFrameOnly ==
    /\ last_frame = "bad_text" => (pc = "next" /\ tx_alive /\ exit = "none")
    /\ (bad_at >= 0 /\ rx_alive) => recv \o InFlight = Decoded

\* the consumer has received an update whose frame came after the dropped one
C10_Witness ==
    /\ bad_at >= 0
    /\ rx_alive
    /\ Len(recv) > bad_at

\* C11: a transport error read from the open stream terminates the producer:
\* once next() has returned Err the task processes no further item of the
\* stream; its only further step is to end, dropping the sender.
C11_TransportErrorTerminates ==
    [][last_frame = "error" =>
          \/ UNCHANGED << pc, sent, last_frame, pending, tx_alive >>
          \/ pc' = "done" /\ ~tx_alive' /\ sent' = sent]_vars

(***************************************************************************)
(* SpecCode: the accounts' code and code hash under init_account with the  *)
(* AccountInfo its callers build, the snapshot initialisation and the      *)
(* streamed Creation updates.                                              *)
(***************************************************************************)
\* the code bytes of the accounts: none, and some contract's
CodeBytes == {"empty", "c1"}

\* B256 values: B256::default(), the digest of the empty code, another digest
Hashes == {B256_default, "KECCAK_EMPTY", "keccak_other"}

\* the AccountInfo values handed to init_account: the caller fills in code_hash
CallerInfos ==
    {[balance |-> 0, nonce |-> 0, code_hash |-> h, code |-> c] :
        h \in Hashes, c \in Opt({Bytecode_new_raw(x) : x \in CodeBytes})}

\* the accounts of a get_state response, by address
ResponseAccounts ==
    {[slots |-> EmptyMap, balance |-> 0, code |-> c, code_hash |-> h] :
        c \in CodeBytes, h \in Hashes}
Responses == UNION {[D -> ResponseAccounts] : D \in SUBSET Addr}

\* the loop of initialize_state over the accounts of the response
RECURSIVE initialize_accounts(_, _, _)
initialize_accounts(accts, state, todo) ==
    IF todo = {} THEN accts
    ELSE LET address == CHOOSE a \in todo : TRUE
             account == state[address]
         IN initialize_accounts(
                init_account(accts, address,
                    AccountInfo_new(account.balance, 0, account.code_hash,
                                    Bytecode_new_raw(account.code)),
                    Some(account.slots)),
                state, todo \ {address})

InitAccountByCaller(address, account) ==
    /\ InitAccount(address, account, None)
    /\ UNCHANGED << readvars, revvars, streamvars, concvars, gssvars, utilvars >>

InitializeState(state) ==
    /\ accounts' = initialize_accounts(accounts, state, DOMAIN state)
    /\ UNCHANGED << block, panicked >>
    /\ UNCHANGED << readvars, revvars, streamvars, concvars, gssvars, utilvars >>

CreationByStream(u, b) ==
    /\ Update(<< u >>, b)
    /\ UNCHANGED << readvars, revvars, streamvars, concvars, gssvars, utilvars >>

UpdateStateByCaller(a, su, b) ==
    /\ UpdateState([x \in {a} |-> su], b)
    /\ UNCHANGED << readvars, revvars, streamvars, concvars, gssvars, utilvars >>

NextCode ==
    \/ \E a \in Addr, i \in CallerInfos : InitAccountByCaller(a, i)
    \/ \E st \in Responses : InitializeState(st)
    \/ \E u \in Creations, b \in Opt(Headers) : CreationByStream(u, b)
    \/ \E a \in Addr, su \in {x \in StateUpdates : x.storage = None}, b \in Headers :
          UpdateStateByCaller(a, su, b)

SpecCode == Init /\ [][NextCode]_vars

\* C15: in every reachable state every account whose code is present has, as
\* basic_ref reports it, code_hash equal to the digest of that code.
C15_CodeHashIsDigest ==
    \A a \in DOMAIN accounts :
        LET info == Unwrap(basic_ref(accounts, a).val)
        IN IsSome(info.code) => info.code_hash = hash_slow(Unwrap(info.code))

(***************************************************************************)
(* SpecConc: a writing task and an interpreter invocation share the        *)
(* database behind its RwLock.  A writing call takes the write guard, runs *)
(* its statements and loop iterations one at a time, and releases the      *)
(* guard when it returns or when a panic unwinds it.  A lookup takes a     *)
(* read guard for its own duration.                                        *)
(***************************************************************************)
Upd(a, m, b) == [address |-> a, slots |-> m, balance |-> b, code |-> None, change |-> "Update"]
Cre(a, m, b, c) == [address |-> a, slots |-> m, balance |-> b, code |-> c, change |-> "Creation"]
S1(v) == [s \in {"s1"} |-> v]

\* the batches the writing task hands to update
ConcBatches ==
    { << Upd("a1", S1(1), Some(1)) >>,
      << Upd("a1", EmptyMap, Some(1)), Cre("a2", S1(1), Some(1), Some("empty")) >>,
      << Upd("a1", EmptyMap, Some(1)), Cre("a2", EmptyMap, Some(1), None) >> }

\* the maps the writing task hands to update_state
ConcUpdateMaps ==
    { [a \in {"a1"} |-> [storage |-> Some(S1(1)), balance |-> Some(0)]],
      [a \in Addr |-> [storage |-> Some(EmptyMap), balance |-> Some(1)]] }

\* the entries of a HashMap in the orders its iterator may yield them
RECURSIVE Orders(_)
Orders(D) ==
    IF D = {} THEN { << >> }
    ELSE UNION { { << a >> \o o : o \in Orders(D \ {a}) } : a \in D }

\* the statements of a writing call, after it has taken the write guard
Statements(call) ==
    CASE call.op = "init_account" ->
            { << [st |-> "init", address |-> call.address, account |-> call.account,
                  permanent_storage |-> call.permanent_storage] >> }
      [] call.op = "update" ->
            { << [st |-> "block", block |-> call.block] >> \o
              [n \in 1 .. Len(call.account_updates) |->
                  [st |-> "update", update |-> call.account_updates[n]]] }
      [] call.op = "update_state" ->
            { << [st |-> "block", block |-> Some(call.header)] >> \o
              [n \in 1 .. Len(o) |->
                  [st |-> "entry", address |-> o[n], update_info |-> call.updates[o[n]]]] :
              o \in Orders(DOMAIN call.updates) }

ConcCalls ==
    {[op |-> "init_account", address |-> a, account |-> i, permanent_storage |-> None] :
        a \in Addr, i \in {x \in InitInfos : x.balance = 0 /\ x.code = None}}
    \cup {[op |-> "update", account_updates |-> b, block |-> Some(h)] :
            b \in ConcBatches, h \in Headers}
    \cup {[op |-> "update_state", updates |-> u, header |-> h] :
            u \in ConcUpdateMaps, h \in Headers}

\* the effect of one statement on the database: [accounts, block, panicked]
Execute(stmt) ==
    CASE stmt.st = "init" ->
            [accounts |-> init_account(accounts, stmt.address, stmt.account,
                                       stmt.permanent_storage),
             block |-> block, panicked |-> FALSE]
      [] stmt.st = "block" ->
            [accounts |-> accounts, block |-> stmt.block, panicked |-> FALSE]
      [] stmt.st = "update" ->
            [accounts |-> apply_account_update(accounts, stmt.update).accounts,
             block |-> block,
             panicked |-> apply_account_update(accounts, stmt.update).panicked]
      [] stmt.st = "entry" ->
            [accounts |-> update_account(accounts, stmt.address, stmt.update_info),
             block |-> block, panicked |-> FALSE]

\* self.inner.write().await is granted when no guard is held
WriteGuardFree == ~wlock /\ rlock = 0

\* self.inner.read().await is granted when the write guard is not held
ReadGuardFree == ~wlock

\* a writing call starts: it takes the write guard
WriterBegin(call, stmts) ==
    /\ wop = "none"
    /\ WriteGuardFree
    /\ wlock' = TRUE
    /\ wop' = call.op
    /\ wtodo' = stmts
    /\ panicked' = FALSE
    /\ UNCHANGED << accounts, block, rlock, uncommitted, rpc, rcall, rret, rcount, rdirty, rstale >>
    /\ UNCHANGED << readvars, revvars, streamvars, gssvars, utilvars >>

\* the call's next statement runs; a failed expect unwinds and drops the guard
WriterStep ==
    /\ wop /= "none"
    /\ wtodo /= << >>
    /\ LET r == Execute(Head(wtodo))
           changed == r.accounts /= accounts \/ r.block /= block
       IN /\ accounts' = r.accounts
          /\ block' = r.block
          /\ panicked' = r.panicked
          /\ uncommitted' = (uncommitted \/ changed)
          /\ rdirty' = (rdirty \/ (changed /\ rpc /= "idle"))
          /\ rstale' = (rstale \/ (changed /\ (rpc /= "idle" \/ rcount > 0)))
          /\ IF r.panicked
             THEN wlock' = FALSE /\ wop' = "none" /\ wtodo' = << >>
             ELSE wtodo' = Tail(wtodo) /\ UNCHANGED << wlock, wop >>
    /\ UNCHANGED << rlock, rpc, rcall, rret, rcount >>
    /\ UNCHANGED << readvars, revvars, streamvars, gssvars, utilvars >>

\* the call returns: the guard is dropped and the call's changes are complete
WriterEnd ==
    /\ wop /= "none"
    /\ wtodo = << >>
    /\ wlock' = FALSE
    /\ wop' = "none"
    /\ uncommitted' = FALSE
    /\ UNCHANGED << accounts, block, panicked, wtodo, rlock, rpc, rcall, rret, rcount,
                    rdirty, rstale >>
    /\ UNCHANGED << readvars, revvars, streamvars, gssvars, utilvars >>

ReaderCalls ==
    {[op |-> "basic_ref", address |-> a, index |-> "-"] : a \in Addr}
    \cup {[op |-> "storage_ref", address |-> a, index |-> "s1"] : a \in Addr}
    \cup {[op |-> "block_number", address |-> "-", index |-> "-"]}

\* a lookup starts: it takes a read guard
ReaderBegin(call) ==
    /\ rpc = "idle"
    /\ rcount < MaxLookups
    /\ ReadGuardFree
    /\ rlock' = rlock + 1
    /\ rpc' = "read"
    /\ rcall' = call
    /\ rret' = Unit
    /\ rdirty' = FALSE
    /\ rstale' = IF rcount = 0 THEN FALSE ELSE rstale
    /\ UNCHANGED << accounts, block, panicked, wlock, wop, wtodo, uncommitted, rcount >>
    /\ UNCHANGED << readvars, revvars, streamvars, gssvars, utilvars >>

\* basic_ref and block_number read once and drop the guard
ReaderReadOnce ==
    /\ rpc = "read"
    /\ rcall.op \in {"basic_ref", "block_number"}
    /\ rret' = IF rcall.op = "basic_ref" THEN basic_ref(accounts, rcall.address)
               ELSE Ok(block_number(block))
    /\ rlock' = rlock - 1
    /\ rpc' = "idle"
    /\ rcount' = rcount + 1
    /\ UNCHANGED << accounts, block, panicked, wlock, wop, wtodo, uncommitted, rcall,
                    rdirty, rstale >>
    /\ UNCHANGED << readvars, revvars, streamvars, gssvars, utilvars >>

\* storage_ref that drops its guard after get_storage and takes none for account_present
ReaderGetStorageDropsGuard ==
    /\ rpc = "read"
    /\ rcall.op = "storage_ref"
    /\ rlock' = rlock - 1
    /\ IF IsSome(get_storage(accounts, rcall.address, rcall.index))
       THEN /\ rret' = Ok(Unwrap(get_storage(accounts, rcall.address, rcall.index)))
            /\ rpc' = "idle"
            /\ rcount' = rcount + 1
       ELSE /\ rpc' = "present"
            /\ UNCHANGED << rret, rcount >>
    /\ UNCHANGED << accounts, block, panicked, wlock, wop, wtodo, uncommitted, rcall,
                    rdirty, rstale >>
    /\ UNCHANGED << readvars, revvars, streamvars, gssvars, utilvars >>

\* storage_ref: get_storage under the read guard; Some(value) ends the lookup
ReaderGetStorage ==
    /\ rpc = "read"
    /\ rcall.op = "storage_ref"
    /\ IF IsSome(get_storage(accounts, rcall.address, rcall.index))
       THEN /\ rret' = Ok(Unwrap(get_storage(accounts, rcall.address, rcall.index)))
            /\ rlock' = rlock - 1
            /\ rpc' = "idle"
            /\ rcount' = rcount + 1
       ELSE /\ rpc' = "present"
            /\ UNCHANGED << rret, rlock, rcount >>
    /\ UNCHANGED << accounts, block, panicked, wlock, wop, wtodo, uncommitted, rcall,
                    rdirty, rstale >>
    /\ UNCHANGED << readvars, revvars, streamvars, gssvars, utilvars >>

\* storage_ref: account_present under the same guard, then the guard is dropped
ReaderAccountPresent ==
    /\ rpc = "present"
    /\ rret' = IF account_present(accounts, rcall.address) THEN Ok(ZERO)
               ELSE Err(MissingAccount(rcall.address))
    /\ rlock' = rlock - 1
    /\ rpc' = "idle"
    /\ rcount' = rcount + 1
    /\ UNCHANGED << accounts, block, panicked, wlock, wop, wtodo, uncommitted, rcall,
                    rdirty, rstale >>
    /\ UNCHANGED << readvars, revvars, streamvars, gssvars, utilvars >>

\* the interpreter invocation ends; the next one starts with its first lookup
ReaderEndInvocation ==
    /\ rpc = "idle"
    /\ rcount > 0
    /\ rcount' = 0
    /\ rstale' = FALSE
    /\ UNCHANGED << accounts, block, panicked, wlock, rlock, wop, wtodo, uncommitted, rpc,
                    rcall, rret, rdirty >>
    /\ UNCHANGED << readvars, revvars, streamvars, gssvars, utilvars >>

NextConc ==
    \/ \E c \in ConcCalls : \E stmts \in Statements(c) : WriterBegin(c, stmts)
    \/ WriterStep
    \/ WriterEnd
    \/ \E c \in ReaderCalls : ReaderBegin(c)
    \/ ReaderReadOnce
    \/ ReaderGetStorage
    \/ ReaderAccountPresent
    \/ ReaderEndInvocation

SpecConc == Init /\ [][NextConc]_vars

\* the reader holds a lookup's guard or runs between a lookup's two reads
InLookup == rpc \in {"read", "present"}

\* C4: no reader that runs concurrently with a writer observes a state in
\* which only part of the writer's batch has been applied: whenever a lookup
\* reads the database, every writing call that changed it has completed.
C4_NoPartialBatch == InLookup => ~uncommitted

\* C5 (as stated): all lookups of one interpreter invocation observe the same
\* database version: while a lookup of the invocation reads, the database has
\* not changed since the invocation's first lookup took its guard.
C5_InvocationObservesOneVersion == InLookup => ~rstale

\* C5 (amended): each single lookup observes one database version: from the
\* moment basic_ref or storage_ref takes its read guard until it returns, no
\* writing call holds the write guard and the database does not change.
C5_LookupObservesOneVersion ==
    InLookup => /\ ~rdirty
                /\ ~wlock
                /\ rlock = 1

\* storage_ref is at its second read, in an invocation during which a write
\* became visible after an earlier lookup
C5_Witness == rpc = "present" /\ rcount >= 1 /\ rstale /\ ~rdirty

(***************************************************************************)
(* SpecGss: one call of gss(f, min_bound, max_bound, tol, max_iter,        *)
(* honour_bounds), statement group by statement group.  The objective is   *)
(* an integer function with one minimizer; every evaluation is counted.    *)
(***************************************************************************)
\* DENOM = 4294967296 = DENOM_SQRT * DENOM_SQRT
DENOM_SQRT == 65536
\* INVPHI = 2654435769 = 40503 * 2^16 + 31161
INVPHI == [hi |-> 40503, lo |-> 31161]
\* INVPHI2 = 1640531526 = 25032 * 2^16 + 34374
INVPHI2 == [hi |-> 25032, lo |-> 34374]

\* mul_div(a, b, DENOM): a * b / 2^32 truncated toward zero, computed on the
\* 16-bit halves of a so that no intermediate value exceeds 31 bits
mul_div(a, b) ==
    LET n == IF b >= 0 THEN b ELSE -b
        q == ((a.hi * n) + ((a.lo * n) \div DENOM_SQRT)) \div DENOM_SQRT
    IN IF b >= 0 THEN q ELSE -q

\* the words: U256 is 0 .. Word - 1, I256 is -SignBit .. SignBit - 1
Word == 2 ^ WordBits
SignBit == 2 ^ (WordBits - 1)

\* I256::from_raw: the same bits read in two's complement
from_raw(u) == IF u >= SignBit THEN u - Word ELSE u

\* I256_to_U256: what is not positive becomes zero
I256_to_U256(to_convert) == IF to_convert <= 0 THEN 0 ELSE to_convert

Abs(x) == IF x >= 0 THEN x ELSE -x

\* the objective: strictly decreasing up to m and strictly increasing after it
Objective(kind, m, x) ==
    CASE kind = "abs" -> Abs(x - m)
      [] kind = "square" -> (x - m) * (x - m)
      [] kind = "skew" -> IF x < m THEN 3 * (m - x) ELSE x - m

f(x) == Objective(f_kind, f_min, x)

FKinds == {"abs", "square", "skew"}

\* the width is no more than tol for the first time
Narrow(lo, hi, t, calls) ==
    IF narrow_at = -1 /\ hi - lo <= t THEN calls ELSE narrow_at

\* lines 21-30: swap the bounds if needed, return them when h <= tol
GssEnter(kind, m, lo, hi, t, n, hb) ==
    /\ gss_pc = "idle"
    /\ f_kind' = kind
    /\ f_min' = m
    /\ tol' = t
    /\ max_iter' = n
    /\ honour_bounds' = hb
    /\ arg_lo' = lo
    /\ arg_hi' = hi
    /\ min_bound' = from_raw(IF lo > hi THEN hi ELSE lo)
    /\ max_bound' = from_raw(IF lo > hi THEN lo ELSE hi)
    /\ lo0' = min_bound'
    /\ hi0' = max_bound'
    /\ gss_h' = max_bound' - min_bound'
    /\ narrow_at' = IF gss_h' <= t THEN 0 ELSE -1
    /\ IF gss_h' <= t
       THEN /\ gss_pc' = "done"
            /\ gss_ret' = << I256_to_U256(min_bound'), I256_to_U256(max_bound') >>
       ELSE /\ gss_pc' = "probe"
            /\ gss_ret' = << >>
    /\ UNCHANGED << xc, yc, xd, yd, gss_iter, f_calls, ya, yb, br_iter, br_ret >>
    /\ UNCHANGED << dbvars, readvars, revvars, streamvars, concvars, utilvars >>

\* lines 32-47 with honour_bounds: the two interior probes
GssProbe ==
    /\ gss_pc = "probe"
    /\ honour_bounds
    /\ xc' = min_bound + mul_div(INVPHI2, gss_h)
    /\ yc' = f(xc')
    /\ xd' = min_bound + mul_div(INVPHI, gss_h)
    /\ yd' = f(xd')
    /\ f_calls' = f_calls + 2
    /\ gss_pc' = "loop"
    /\ UNCHANGED << f_min, f_kind, min_bound, max_bound, tol, max_iter, honour_bounds,
                    gss_h, gss_iter, narrow_at, lo0, hi0, gss_ret >>
    /\ UNCHANGED << arg_lo, arg_hi, ya, yb, br_iter, br_ret >>
    /\ UNCHANGED << dbvars, readvars, revvars, streamvars, concvars, utilvars >>

\* lines 49-65: one iteration of for _ in 0..max_iter
GssIterate ==
    /\ gss_pc = "loop"
    /\ gss_iter < max_iter
    /\ gss_h' = mul_div(INVPHI, gss_h)
    /\ IF yc < yd
       THEN /\ max_bound' = xd
            /\ xd' = xc
            /\ yd' = yc
            /\ xc' = min_bound + mul_div(INVPHI2, gss_h')
            /\ yc' = f(xc')
            /\ UNCHANGED min_bound
       ELSE /\ min_bound' = xc
            /\ xc' = xd
            /\ yc' = yd
            /\ xd' = min_bound' + mul_div(INVPHI, gss_h')
            /\ yd' = f(xd')
            /\ UNCHANGED max_bound
    /\ f_calls' = f_calls + 1
    /\ gss_iter' = gss_iter + 1
    /\ narrow_at' = Narrow(min_bound', max_bound', tol, f_calls')
    /\ UNCHANGED << f_min, f_kind, tol, max_iter, honour_bounds, gss_pc, lo0, hi0, gss_ret >>
    /\ UNCHANGED << arg_lo, arg_hi, ya, yb, br_iter, br_ret >>
    /\ UNCHANGED << dbvars, readvars, revvars, streamvars, concvars, utilvars >>

\* lines 67-71: the pair returned after the loop
GssReturn ==
    /\ gss_pc = "loop"
    /\ gss_iter = max_iter
    /\ gss_pc' = "done"
    /\ gss_ret' = IF yc < yd
                  THEN << I256_to_U256(min_bound), I256_to_U256(xd) >>
                  ELSE << I256_to_U256(xc), I256_to_U256(max_bound) >>
    /\ UNCHANGED << f_min, f_kind, min_bound, max_bound, tol, max_iter, honour_bounds,
                    gss_h, xc, yc, xd, yd, gss_iter, f_calls, narrow_at, lo0, hi0 >>
    /\ UNCHANGED << arg_lo, arg_hi, ya, yb, br_iter, br_ret >>
    /\ UNCHANGED << dbvars, readvars, revvars, streamvars, concvars, utilvars >>

\* I256 division truncates toward zero
tdiv(a, b) ==
    LET q == Abs(a) \div Abs(b)
    IN IF (a >= 0) = (b >= 0) THEN q ELSE -q

\* GOLDEN_RATIO = 6949403065 = 106039 * 2^16 + 31161
GOLDEN_RATIO == [hi |-> 106039, lo |-> 31161]
maxiter == 1000
grow_limit == 110
verysmall_num == 100

\* lines 243-248: the shift that ends an iteration of bracket's while loop
bracket_shift(s, w, yw, calls) ==
    [tag |-> "continue", calls |-> calls, ret |-> << >>,
     s |-> [min_bound |-> s.max_bound, max_bound |-> s.xc, xc |-> w,
            ya |-> s.yb, yb |-> s.yc, yc |-> yw]]

bracket_return(s, tuple, calls) ==
    [tag |-> "return", calls |-> calls, ret |-> tuple, s |-> s]

bracket_panic(s) ==
    [tag |-> "panic", calls |-> 0, ret |-> << >>, s |-> s]

\* lines 192-248: one iteration of bracket's while loop from the locals s;
\* (2 * 100) / 10^23 of line 196 is 0 in integer division, and dividing by
\* it at line 201 panics
bracket_iteration(s, iter) ==
    LET tmp1 == (s.max_bound - s.min_bound) * (s.yb - s.yc)
        tmp2 == (s.max_bound - s.xc) * (s.yb - s.ya)
        val == tmp2 - tmp1
        denom == IF val < verysmall_num THEN 0 ELSE 2 * val
        w == s.max_bound
               - tdiv((s.max_bound - s.xc) * tmp2 - (s.max_bound - s.min_bound) * tmp1, denom)
        wlim == s.max_bound + grow_limit * (s.xc - s.max_bound)
        golden == s.xc + mul_div(GOLDEN_RATIO, s.xc - s.max_bound)
    IN IF denom = 0 \/ iter > maxiter
       THEN bracket_panic(s)
       ELSE IF (w - s.xc) * (s.max_bound - w) > 0
       THEN IF f(w) < s.yc
            THEN bracket_return(s, << w, s.max_bound, s.xc, s.yc >>, 1)
            ELSE IF f(w) > s.yb
            THEN bracket_return(s, << s.min_bound, s.max_bound, w, f(w) >>, 1)
            ELSE bracket_shift(s, golden, f(golden), 2)
       ELSE IF (w - wlim) * (wlim - s.xc) >= 0
       THEN bracket_shift(s, wlim, f(wlim), 1)
       ELSE IF (w - wlim) * (s.xc - w) > 0
       THEN IF f(w) < s.yc
            THEN LET w2 == w + mul_div(GOLDEN_RATIO, w - s.xc)
                 IN bracket_shift([min_bound |-> s.min_bound, max_bound |-> s.xc, xc |-> w,
                                   ya |-> s.ya, yb |-> s.yc, yc |-> f(w)],
                                  w2, f(w2), 2)
            ELSE bracket_shift(s, w, f(w), 1)
       ELSE bracket_shift(s, golden, f(golden), 1)

\* line 39 and lines 169-189: gss without honour_bounds calls bracket, which
\* evaluates f at both bounds, orders them downhill and takes a first step
GssBracket ==
    /\ gss_pc = "probe"
    /\ ~honour_bounds
    /\ LET swapped == f(min_bound) < f(max_bound)
       IN /\ min_bound' = IF swapped THEN max_bound ELSE min_bound
          /\ max_bound' = IF swapped THEN min_bound ELSE max_bound
          /\ ya' = IF swapped THEN f(max_bound) ELSE f(min_bound)
          /\ yb' = IF swapped THEN f(min_bound) ELSE f(max_bound)
    /\ xc' = max_bound' + mul_div(GOLDEN_RATIO, max_bound' - min_bound')
    /\ yc' = f(xc')
    /\ br_iter' = 0
    /\ f_calls' = f_calls + 3
    /\ gss_pc' = "bracket"
    /\ UNCHANGED << f_min, f_kind, tol, max_iter, honour_bounds, gss_h, xd, yd, gss_iter,
                    narrow_at, lo0, hi0, gss_ret, arg_lo, arg_hi, br_ret >>
    /\ UNCHANGED << dbvars, readvars, revvars, streamvars, concvars, utilvars >>

\* lines 191-249: one iteration of while yc < yb, with its two early returns
BracketIterate ==
    /\ gss_pc = "bracket"
    /\ yc < yb
    /\ LET r == bracket_iteration([min_bound |-> min_bound, max_bound |-> max_bound,
                                   xc |-> xc, ya |-> ya, yb |-> yb, yc |-> yc], br_iter)
       IN /\ gss_pc' = CASE r.tag = "panic" -> "panic"
                         [] r.tag = "return" -> "bracketed"
                         [] r.tag = "continue" -> "bracket"
          /\ br_ret' = r.ret
          /\ f_calls' = f_calls + r.calls
          /\ br_iter' = IF r.tag = "panic" THEN br_iter ELSE br_iter + 1
          /\ min_bound' = r.s.min_bound
          /\ max_bound' = r.s.max_bound
          /\ xc' = r.s.xc
          /\ ya' = r.s.ya
          /\ yb' = r.s.yb
          /\ yc' = r.s.yc
    /\ UNCHANGED << f_min, f_kind, tol, max_iter, honour_bounds, gss_h, xd, yd, gss_iter,
                    narrow_at, lo0, hi0, gss_ret, arg_lo, arg_hi >>
    /\ UNCHANGED << dbvars, readvars, revvars, streamvars, concvars, utilvars >>

\* line 251: the while loop has ended
BracketReturn ==
    /\ gss_pc = "bracket"
    /\ ~(yc < yb)
    /\ br_ret' = << min_bound, max_bound, xc, yc >>
    /\ gss_pc' = "bracketed"
    /\ UNCHANGED << f_min, f_kind, min_bound, max_bound, tol, max_iter, honour_bounds,
                    gss_h, xc, yc, xd, yd, gss_iter, f_calls, narrow_at, lo0, hi0, gss_ret,
                    arg_lo, arg_hi, ya, yb, br_iter >>
    /\ UNCHANGED << dbvars, readvars, revvars, streamvars, concvars, utilvars >>

\* lines 39-47: gss takes bracket's tuple and evaluates the upper probe
GssAfterBracket ==
    /\ gss_pc = "bracketed"
    /\ min_bound' = br_ret[1]
    /\ max_bound' = br_ret[2]
    /\ xc' = br_ret[3]
    /\ yc' = br_ret[4]
    /\ xd' = min_bound' + mul_div(INVPHI, gss_h)
    /\ yd' = f(xd')
    /\ f_calls' = f_calls + 1
    /\ gss_pc' = "loop"
    /\ UNCHANGED << f_min, f_kind, tol, max_iter, honour_bounds, gss_h, gss_iter,
                    narrow_at, lo0, hi0, gss_ret, arg_lo, arg_hi, ya, yb, br_iter, br_ret >>
    /\ UNCHANGED << dbvars, readvars, revvars, streamvars, concvars, utilvars >>

\* the bounds handed to gss: both below the sign bit or both from it on, so
\* that the subtraction of line 27 stays in range; the minimizer lies nearby;
\* bracket steps outside the bounds and is entered from below the sign bit
Halves == {0, SignBit}

\* a caller calls gss
GssCall ==
    /\ gss_pc = "idle"
    /\ \E half \in Halves, kind \in FKinds, m \in 0 .. MaxMinimizer,
          lo \in 0 .. MaxBound, hi \in 0 .. MaxBound,
          t \in 0 .. MaxTol, n \in 0 .. MaxIter, hb \in BOOLEAN :
          /\ hb \/ half = 0
          /\ GssEnter(kind, from_raw(half + m), half + lo, half + hi, t, n, hb)

NextGss ==
    \/ GssCall
    \/ GssProbe
    \/ GssBracket
    \/ BracketIterate
    \/ BracketReturn
    \/ GssAfterBracket
    \/ GssIterate
    \/ GssReturn

SpecGss == Init /\ [][NextGss]_vars

\* C19: once the interval is no wider than tol, on entry or after an
\* iteration of the loop, gss returns the bounds of that moment and f is not
\* evaluated again; with equal bounds f is never evaluated.
C19_StopsAsSoonAsNarrow ==
    /\ narrow_at # -1 => f_calls = narrow_at
    /\ gss_pc = "done" /\ lo0 = hi0 => f_calls = 0 /\ gss_ret = << lo0, lo0 >>

\* C20: with honour_bounds, for an objective that is unimodal on the interval
\* gss was called with, the returned pair encloses the minimizer.
C20_ReturnedPairEnclosesMinimizer ==
    gss_pc = "done" /\ honour_bounds /\ lo0 <= f_min /\ f_min <= hi0
        => gss_ret[1] <= f_min /\ f_min <= gss_ret[2]

Min(a, b) == IF a <= b THEN a ELSE b
Max(a, b) == IF a >= b THEN a ELSE b

\* gss with honour_bounds as one function of its arguments: the loop of
\* lines 49-65 from the state s with n iterations left
RECURSIVE gss_loop(_, _, _, _)
gss_loop(kind, m, s, n) ==
    IF n = 0
    THEN IF s.yc < s.yd
         THEN << I256_to_U256(s.min_bound), I256_to_U256(s.xd) >>
         ELSE << I256_to_U256(s.xc), I256_to_U256(s.max_bound) >>
    ELSE LET h1 == mul_div(INVPHI, s.h)
         IN IF s.yc < s.yd
            THEN LET x == s.min_bound + mul_div(INVPHI2, h1)
                 IN gss_loop(kind, m,
                             [min_bound |-> s.min_bound, max_bound |-> s.xd, h |-> h1,
                              xc |-> x, yc |-> Objective(kind, m, x),
                              xd |-> s.xc, yd |-> s.yc], n - 1)
            ELSE LET x == s.xc + mul_div(INVPHI, h1)
                 IN gss_loop(kind, m,
                             [min_bound |-> s.xc, max_bound |-> s.max_bound, h |-> h1,
                              xc |-> s.xd, yc |-> s.yd,
                              xd |-> x, yd |-> Objective(kind, m, x)], n - 1)

\* gss(f, lo, hi, tol, max_iter, true), lines 17-72
gss(kind, m, lo, hi, t, n) ==
    LET lo1 == from_raw(IF lo > hi THEN hi ELSE lo)
        hi1 == from_raw(IF lo > hi THEN lo ELSE hi)
        h0 == hi1 - lo1
        c == lo1 + mul_div(INVPHI2, h0)
        d == lo1 + mul_div(INVPHI, h0)
    IN IF h0 <= t
       THEN << I256_to_U256(lo1), I256_to_U256(hi1) >>
       ELSE gss_loop(kind, m,
                     [min_bound |-> lo1, max_bound |-> hi1, h |-> h0,
                      xc |-> c, yc |-> Objective(kind, m, c),
                      xd |-> d, yd |-> Objective(kind, m, d)], n)

\* C21: gss gives the same pair when its two bounds are exchanged, and with
\* honour_bounds the pair (a, b) it returns satisfies
\* min(lo, hi) <= a <= b <= max(lo, hi) for the bounds lo, hi it was given.
C21_SymmetricAndWithinBounds ==
    gss_pc = "done" /\ honour_bounds
        => /\ gss_ret = gss(f_kind, f_min, arg_hi, arg_lo, tol, max_iter)
           /\ Min(arg_lo, arg_hi) <= gss_ret[1]
           /\ gss_ret[1] <= gss_ret[2]
           /\ gss_ret[2] <= Max(arg_lo, arg_hi)

\* C28: with honour_bounds, at the start of every iteration of the loop
\* min_bound <= xc < xd <= max_bound and h = max_bound - min_bound.
C28_LoopInvariant ==
    gss_pc = "loop" /\ honour_bounds /\ gss_iter < max_iter
        => /\ min_bound <= xc
           /\ xc < xd
           /\ xd <= max_bound
           /\ gss_h = max_bound - min_bound

\* C22: whenever bracket returns a tuple (a, b, xc, yc), by the end of its
\* loop or by an early return, yc = f(xc), f(b) < f(a) and f(b) < f(xc).
C22_BracketReturnsBracket ==
    br_ret # << >>
        => /\ br_ret[4] = f(br_ret[3])
           /\ f(br_ret[2]) < f(br_ret[1])
           /\ f(br_ret[2]) < f(br_ret[3])

(***************************************************************************)
(* SpecCache: get_contract_bytecode and its cache, with a file system that *)
(* changes under it.                                                       *)
(***************************************************************************)
FileError_Io == "FileError::Io"

\* Cache::insert on a cache of CacheCapacity entries: when the new entry
\* makes the cache too large, one entry (victim) leaves it; which one is the
\* cache's policy
cache_insert(cache, key, value, victim) ==
    LET added == [k \in DOMAIN cache \cup {key} |-> IF k = key THEN value ELSE cache[k]]
    IN IF Cardinality(DOMAIN added) > CacheCapacity
       THEN [k \in DOMAIN added \ {victim} |-> added[k]]
       ELSE added

\* get_contract_bytecode without the lookup of lines 286-288
get_contract_bytecode_no_lookup(cache, fs, path, victim) ==
    IF fs[path] = NoFile
    THEN [val |-> Err(FileError_Io), opened |-> TRUE, cache |-> cache]
    ELSE LET bytecode == Bytecode_new_raw(fs[path])
         IN [val |-> Ok(bytecode), opened |-> TRUE,
             cache |-> cache_insert(cache, path, bytecode, victim)]

\* get_contract_bytecode(path): [val: what it returns, opened: whether it
\* opened the file, cache: the cache it leaves]
get_contract_bytecode(cache, fs, path, victim) ==
    IF path \in DOMAIN cache
    THEN [val |-> Ok(cache[path]), opened |-> FALSE, cache |-> cache]
    ELSE IF fs[path] = NoFile
    THEN [val |-> Err(FileError_Io), opened |-> TRUE, cache |-> cache]
    ELSE LET bytecode == Bytecode_new_raw(fs[path])
         IN [val |-> Ok(bytecode), opened |-> TRUE,
             cache |-> cache_insert(cache, path, bytecode, victim)]

GetContractBytecode(path, victim) ==
    LET r == get_contract_bytecode(BYTECODE_CACHE, files, path, victim)
    IN /\ BYTECODE_CACHE' = r.cache
       /\ fn_call' = [op |-> "get_contract_bytecode", arg |-> path]
       /\ fn_ret' = [val |-> r.val, opened |-> r.opened, later |-> IsSome(first_loaded[path])]
       /\ first_loaded' = IF first_loaded[path] = None /\ r.val.tag = "Ok"
                          THEN [first_loaded EXCEPT ![path] = Some(r.val.val)]
                          ELSE first_loaded
       /\ UNCHANGED files

\* the file system changes: a file is written, rewritten or removed
WriteFile(path, content) ==
    /\ files[path] # content
    /\ files' = [files EXCEPT ![path] = content]
    /\ UNCHANGED << BYTECODE_CACHE, first_loaded, fn_call, fn_ret >>

RemoveFile(path) ==
    /\ files[path] # NoFile
    /\ files' = [files EXCEPT ![path] = NoFile]
    /\ UNCHANGED << BYTECODE_CACHE, first_loaded, fn_call, fn_ret >>

NextCache ==
    \/ \E path \in Paths, victim \in Paths :
          /\ victim \in DOMAIN BYTECODE_CACHE \cup {path}
          /\ GetContractBytecode(path, victim)
          /\ UNCHANGED << dbvars, readvars, revvars, streamvars, concvars, gssvars >>
    \/ \E path \in Paths, content \in Contents :
          WriteFile(path, content)
          /\ UNCHANGED << dbvars, readvars, revvars, streamvars, concvars, gssvars >>
    \/ \E path \in Paths :
          RemoveFile(path)
          /\ UNCHANGED << dbvars, readvars, revvars, streamvars, concvars, gssvars >>

SpecCache == Init /\ [][NextCache]_vars

\* the paths that have been loaded successfully
LoadedPaths == {p \in Paths : IsSome(first_loaded[p])}

\* the last call was get_contract_bytecode for a path loaded before it
LaterCall == fn_call.op = "get_contract_bytecode" /\ fn_ret.later

\* C23 as stated: once a call for a path has succeeded, every later call for
\* it returns the same bytecode and does not open the file, whatever has
\* become of the file.
C23_LoadOnce ==
    LaterCall => /\ fn_ret.val = Ok(Unwrap(first_loaded[fn_call.arg]))
                 /\ ~fn_ret.opened

\* C23, amended: the same while no more than CacheCapacity distinct paths have
\* been loaded.
C23_LoadOnceWithinCapacity ==
    LaterCall /\ Cardinality(LoadedPaths) <= CacheCapacity
        => /\ fn_ret.val = Ok(Unwrap(first_loaded[fn_call.arg]))
           /\ ~fn_ret.opened

\* a later call for a path whose file has been removed or rewritten since
C23_Witness ==
    /\ LaterCall
    /\ Cardinality(LoadedPaths) <= CacheCapacity
    /\ files[fn_call.arg] # Unwrap(first_loaded[fn_call.arg]).bytes
    /\ fn_ret.val.tag = "Ok"

(***************************************************************************)
(* SpecVm: the functions of protocol/vm (utils.rs, models.rs,              *)
(* protosim_contract.rs, adapter_contract.rs), each applied to inputs      *)
(* drawn from small sets; fn_call holds the call and fn_ret its outcome.   *)
(***************************************************************************)
\* a call that did not return: an index out of range, an integer cast that
\* overflows
Panicked == [tag |-> "Panicked", val |-> 0]

\* a 256-bit unsigned value: over counts the part above the low 64 bits
U256(over, low) == [over |-> over, low |-> low]

\* U256::as_u64 panics when the value does not fit
fits_u64(value) == value.over = 0

\* the error data of a TransactionError.  A payload that starts with "0x":
\*   hex_ok  whether what follows "0x" is valid hex of even length
\*   len     the number of bytes it decodes to
\*   first4  its first four bytes, when it has them: the selector of
\*           Error(string), of Panic(uint256), another one, or the first
\*           bytes of an ABI string (a revert without selector)
\*   after4  what follows the first four bytes: an ABI string, one 256-bit
\*           word, or neither
\* and a text that does not start with "0x", which mentions OutOfGas or not.
ErrorSelector == "08c379a0"
PanicSelector == "4e487b71"

Payload(hex_ok, len, first4, after4, str, code) ==
    [kind |-> "0x", hex_ok |-> hex_ok, len |-> len, first4 |-> first4, after4 |-> after4,
     str |-> str, code |-> code]

Text(mentions_out_of_gas) ==
    [kind |-> "text", mentions_out_of_gas |-> mentions_out_of_gas]

\* ethabi::decode(&[ParamType::String], bytes): of the whole payload
decode_string_full(data) ==
    IF data.len >= 4 /\ data.first4 = "string" THEN Ok(data.str) ELSE Err("decode")

\* ethabi::decode(&[ParamType::String], &bytes[4..])
decode_string_after4(data) ==
    IF data.after4 = "string" THEN Ok(data.str) ELSE Err("decode")

\* ethabi::decode(&[ParamType::Uint(256)], &bytes[4..]): the first word of
\* the tail; the first word of an ABI string is its offset, 32
decode_uint_after4(data) ==
    CASE data.after4 = "uint" -> Ok(data.code)
      [] data.after4 = "string" -> Ok(U256(0, 32))
      [] OTHER -> Err("decode")

\* get_solidity_panic_codes, lines 205-218
get_solidity_panic_codes ==
    [c \in {0, 1, 17, 18, 33, 34, 51, 50, 65, 81} |->
        CASE c = 0 -> "GenericCompilerPanic"
          [] c = 1 -> "AssertionError"
          [] c = 17 -> "ArithmeticOver/Underflow"
          [] c = 18 -> "ZeroDivisionError"
          [] c = 33 -> "UnknownEnumMember"
          [] c = 34 -> "BadStorageByteArrayEncoding"
          [] c = 51 -> "EmptyArray"
          [] c = 50 -> "OutOfBounds"
          [] c = 65 -> "OutOfMemory"
          [] c = 81 -> "BadFunctionPointer"]

FailedToDecode(data) == << "Failed to decode: ", data >>

\* lines 109-124: the two plain string decodings and the fallback;
\* &data_bytes[4..] at line 117 is out of range for fewer than four bytes
parse_fallback(data) ==
    IF decode_string_full(data).tag = "Ok" THEN Ok(decode_string_full(data).val)
    ELSE IF data.len < 4 THEN Panicked
    ELSE IF decode_string_after4(data).tag = "Ok" THEN Ok(decode_string_after4(data).val)
    ELSE Ok(FailedToDecode(data))

\* parse_solidity_error_message(data), lines 81-125: Ok(reason) or Panicked
parse_solidity_error_message(data) ==
    IF ~data.hex_ok THEN Ok(FailedToDecode(data))
    ELSE IF data.len >= 4 /\ data.first4 = ErrorSelector
    THEN IF decode_string_after4(data).tag = "Ok"
         THEN Ok(decode_string_after4(data).val)
         ELSE parse_fallback(data)
    ELSE IF data.len >= 4 /\ data.first4 = PanicSelector
    THEN IF decode_uint_after4(data).tag = "Ok"
         THEN LET error_code == decode_uint_after4(data).val
              IN IF ~fits_u64(error_code) THEN Panicked
                 ELSE IF error_code.low \in DOMAIN get_solidity_panic_codes
                 THEN Ok(get_solidity_panic_codes[error_code.low])
                 ELSE Ok(<< "Panic(", error_code, ")" >>)
         ELSE parse_fallback(data)
    ELSE parse_fallback(data)

\* SimulationEngineError
TransactionError(data, gas_used) ==
    [tag |-> "TransactionError", data |-> data, gas_used |-> gas_used]
OutOfGas(message, pool_state) ==
    [tag |-> "OutOfGas", message |-> message, pool_state |-> pool_state]
StorageError(message) == [tag |-> "StorageError", message |-> message]

\* gas_used as f64 / gas_limit as f64 >= 0.97.  Both casts are exact below
\* 2^53 and the quotient is rounded to the nearest double, as the literal is,
\* so for the gas values of the model the test is that of the exact ratio;
\* x / 0 is +inf for x > 0 and NaN for x = 0, and NaN >= 0.97 is false
usage_at_least_97_percent(gas_used, gas_limit) ==
    IF gas_limit = 0 THEN gas_used > 0 ELSE 100 * gas_used >= 97 * gas_limit

\* maybe_coerce_error(err, pool_state, gas_limit), lines 28-79
maybe_coerce_error(err, pool_state, gas_limit) ==
    IF err.tag = "TransactionError" /\ err.data.kind = "0x"
    THEN LET reason == parse_solidity_error_message(err.data)
             new_err == TransactionError(<< "Revert! Reason: ", reason.val >>, err.gas_used)
         IN IF reason = Panicked THEN Panicked
            ELSE IF IsSome(gas_limit) /\ IsSome(err.gas_used)
                    /\ usage_at_least_97_percent(Unwrap(err.gas_used), Unwrap(gas_limit))
            THEN OutOfGas(<< "SimulationError: Likely out-of-gas.", new_err >>, pool_state)
            ELSE new_err
    ELSE IF err.tag = "TransactionError" /\ err.data.mentions_out_of_gas
    THEN OutOfGas(<< "SimulationError: out-of-gas.", err.data >>, pool_state)
    ELSE err

\* the inputs
PanicCodes ==
    {U256(0, c) : c \in {0, 1, 2, 17, 18, 33, 34, 49, 50, 51, 65, 81}} \cup {U256(1, 0)}
Reasons == {"Invalid operation"}

Payloads ==
    {Payload(FALSE, 0, "-", "-", "-", U256(0, 0))}
    \cup {Payload(TRUE, n, "-", "-", "-", U256(0, 0)) : n \in {0, 1, 3}}
    \cup {Payload(TRUE, 100, sel, "string", r, U256(0, 0)) :
            sel \in {ErrorSelector, PanicSelector, "other"}, r \in Reasons}
    \cup {Payload(TRUE, 100, "string", "-", r, U256(0, 0)) : r \in Reasons}
    \cup {Payload(TRUE, 36, PanicSelector, "uint", "-", c) : c \in PanicCodes}
    \cup {Payload(TRUE, n, sel, "-", "-", U256(0, 0)) :
            n \in {4, 5}, sel \in {ErrorSelector, PanicSelector, "other"}}

Datas == Payloads \cup {Text(b) : b \in BOOLEAN}
GasUseds == {0, 96, 97, 100}
GasLimits == {0, 100}
PoolStates == {"test_pool"}
EngineErrors ==
    {TransactionError(d, g) : d \in Datas, g \in Opt(GasUseds)}
    \cup {StorageError("Storage error:")}

ParseSolidityErrorMessage(data) ==
    /\ fn_call' = [op |-> "parse_solidity_error_message", arg |-> data]
    /\ fn_ret' = parse_solidity_error_message(data)
    /\ UNCHANGED << BYTECODE_CACHE, files, first_loaded >>

MaybeCoerceError(err, pool_state, gas_limit) ==
    /\ fn_call' = [op |-> "maybe_coerce_error",
                   arg |-> [err |-> err, pool_state |-> pool_state, gas_limit |-> gas_limit]]
    /\ fn_ret' = maybe_coerce_error(err, pool_state, gas_limit)
    /\ UNCHANGED << BYTECODE_CACHE, files, first_loaded >>

\* ProtosimError
EncodingError(message) == [tag |-> "EncodingError", message |-> message]
DecodingError(message) == [tag |-> "DecodingError", message |-> message]
SimulationFailure(message) == [tag |-> "SimulationFailure", message |-> message]

\* ethabi::Token: an unsigned integer, or an array of tokens
Token_Uint(value) == [token |-> "Uint", uint |-> value, array |-> << >>]
Token_Array(tokens) == [token |-> "Array", uint |-> U256(0, 0), array |-> tokens]

\* the functions of the adapter ABI that the model calls, with the number of
\* their inputs: getCapabilities(bytes32,address,address) and minGasUsage()
abi == [getCapabilities |-> [inputs |-> 3], minGasUsage |-> [inputs |-> 0]]

\* the bytes a simulation returns: whether they decode against the output
\* types of the called function, and the tokens they decode to
ReturnBytes(decodes, tokens) == [decodes |-> decodes, tokens |-> tokens]

\* SimulationResult
SimulationResult(result, gas_used, state_updates) ==
    [result |-> result, gas_used |-> gas_used, state_updates |-> state_updates]

ProtoSimResponse(return_value, simulation_result) ==
    [return_value |-> return_value, simulation_result |-> simulation_result]

\* encode_input(fname, args), lines 45-82: selector and arguments
encode_input(fname, args) ==
    IF fname \notin DOMAIN abi
    THEN Err(EncodingError(<< "Function name not found in the ABI", fname >>))
    ELSE IF abi[fname].inputs # Len(args)
    THEN Err(EncodingError("Invalid argument count"))
    ELSE Ok(<< fname, args >>)

\* decode_output(fname, encoded), lines 84-111
decode_output(fname, encoded) ==
    IF fname \notin DOMAIN abi
    THEN Err(DecodingError(<< "Function name not found in the ABI", fname >>))
    ELSE IF ~encoded.decodes
    THEN Err(DecodingError("Failed to decode output"))
    ELSE Ok(encoded.tokens)

\* simulate(params), lines 153-163: engine_outcome is what the engine's
\* simulate returns for params; an engine error goes through
\* maybe_coerce_error with gas_limit None and becomes a SimulationFailure
simulate(engine_outcome) ==
    IF engine_outcome.tag = "Ok" THEN engine_outcome
    ELSE LET coerced_err == maybe_coerce_error(engine_outcome.val, "pool_state", None)
         IN IF coerced_err = Panicked THEN Panicked
            ELSE Err(SimulationFailure(coerced_err))

\* call with the decoding error returned to the caller
ProtoSimContract_call_propagating(fname, args, engine_outcome) ==
    LET call_data == encode_input(fname, args)
        sim_result == simulate(engine_outcome)
    IN IF call_data.tag = "Err" THEN call_data
       ELSE IF sim_result.tag # "Ok" THEN sim_result
       ELSE LET decoded == decode_output(fname, sim_result.val.result)
            IN IF decoded.tag = "Err" THEN decoded
               ELSE Ok(ProtoSimResponse(decoded.val, sim_result.val))

\* ProtoSimContract::call(fname, args, ..), lines 114-151
ProtoSimContract_call(fname, args, engine_outcome) ==
    LET call_data == encode_input(fname, args)
        sim_result == simulate(engine_outcome)
    IN IF call_data.tag = "Err" THEN call_data
       ELSE IF sim_result.tag # "Ok" THEN sim_result
       ELSE LET decoded == decode_output(fname, sim_result.val.result)
                output == IF decoded.tag = "Ok" THEN decoded.val ELSE << >>
            IN Ok(ProtoSimResponse(output, sim_result.val))

\* enum Capability, models.rs lines 7-17
Capability ==
    [v \in 1..9 |->
        CASE v = 1 -> "SellSide"
          [] v = 2 -> "BuySide"
          [] v = 3 -> "PriceFunction"
          [] v = 4 -> "FeeOnTransfer"
          [] v = 5 -> "ConstantPrice"
          [] v = 6 -> "TokenBalanceIndependent"
          [] v = 7 -> "ScaledPrice"
          [] v = 8 -> "HardLimits"
          [] v = 9 -> "MarginalPrice"]

\* U256::as_u32 panics when the value does not fit; the low parts of the
\* model's values are small, so the values that do not fit are those with a
\* part above 64 bits
fits_u32(value) == value.over = 0

\* Capability::from_uint(value), models.rs lines 20-36
Capability_from_uint(value) ==
    IF ~fits_u32(value) THEN Panicked
    ELSE IF value.low \in DOMAIN Capability THEN Ok(Capability[value.low])
    ELSE Err(DecodingError(<< "Unexpected Capability value: ", value >>))

\* hexstring_to_bytes(pair_id), adapter_contract.rs lines 182-187
hexstring_to_bytes(pair_id) ==
    IF pair_id.hex_ok THEN Ok(pair_id)
    ELSE Err(EncodingError(<< "Invalid hex string: ", pair_id >>))

\* get_capabilities(pair_id, sell_token, buy_token), adapter_contract.rs lines
\* 140-168: the Uint tokens of the return value go through from_uint and
\* filter_map keeps the capabilities of those it accepts
get_capabilities(pair_id, sell_token, buy_token, engine_outcome) ==
    LET bytes == hexstring_to_bytes(pair_id)
        res == ProtoSimContract_call("getCapabilities", << bytes.val, sell_token, buy_token >>,
                                     engine_outcome)
    IN IF bytes.tag = "Err" THEN bytes
       ELSE IF res.tag # "Ok" THEN res
       ELSE LET values == {res.val.return_value[i].uint :
                              i \in {j \in DOMAIN res.val.return_value :
                                        res.val.return_value[j].token = "Uint"}}
            IN IF \E v \in values : Capability_from_uint(v) = Panicked THEN Panicked
               ELSE Ok({Capability_from_uint(v).val :
                           v \in {u \in values : Capability_from_uint(u).tag = "Ok"}})

\* the inputs
FNames == {"getCapabilities", "minGasUsage", "unknownFunction"}
ArgLists == {<< >>, << "pair", "sell", "buy" >>}
CapabilityValues == {U256(0, c) : c \in {0, 1, 2, 9, 10}} \cup {U256(1, 0)}
TokenLists ==
    {<< >>}
    \cup {<< Token_Uint(v) >> : v \in CapabilityValues}
    \cup {<< Token_Uint(U256(0, 1)), Token_Uint(v) >> : v \in CapabilityValues}
    \cup {<< Token_Array(<< Token_Uint(U256(0, 1)), Token_Uint(v) >>) >> : v \in CapabilityValues}
SimStateUpdates == {"no updates", "slot 0 of the adapter"}
SimulationResults ==
    {SimulationResult(ReturnBytes(TRUE, ts), 21000, u) : ts \in TokenLists, u \in SimStateUpdates}
    \cup {SimulationResult(ReturnBytes(FALSE, << >>), g, u) : g \in {21000, 50000}, u \in SimStateUpdates}
EngineOutcomes ==
    {Ok(r) : r \in SimulationResults}
    \cup {Err(e) : e \in {StorageError("Storage error:"),
                          TransactionError(Text(TRUE), Some(100)),
                          TransactionError(Payload(TRUE, 0, "-", "-", "-", U256(0, 0)), None),
                          TransactionError(Payload(TRUE, 4, "other", "-", "-", U256(0, 0)), None)}}
PairIds == {[hex_ok |-> TRUE], [hex_ok |-> FALSE]}

Call(fname, args, engine_outcome) ==
    /\ fn_call' = [op |-> "call",
                   arg |-> [fname |-> fname, args |-> args, engine_outcome |-> engine_outcome]]
    /\ fn_ret' = ProtoSimContract_call(fname, args, engine_outcome)
    /\ UNCHANGED << BYTECODE_CACHE, files, first_loaded >>

CapabilityFromUint(value) ==
    /\ fn_call' = [op |-> "from_uint", arg |-> value]
    /\ fn_ret' = Capability_from_uint(value)
    /\ UNCHANGED << BYTECODE_CACHE, files, first_loaded >>

GetCapabilities(pair_id, engine_outcome) ==
    /\ fn_call' = [op |-> "get_capabilities",
                   arg |-> [pair_id |-> pair_id, engine_outcome |-> engine_outcome]]
    /\ fn_ret' = get_capabilities(pair_id, "sell", "buy", engine_outcome)
    /\ UNCHANGED << BYTECODE_CACHE, files, first_loaded >>

NextVm ==
    \/ \E data \in Payloads :
          ParseSolidityErrorMessage(data)
          /\ UNCHANGED << dbvars, readvars, revvars, streamvars, concvars, gssvars >>
    \/ \E err \in EngineErrors, pool_state \in PoolStates, gas_limit \in Opt(GasLimits) :
          MaybeCoerceError(err, pool_state, gas_limit)
          /\ UNCHANGED << dbvars, readvars, revvars, streamvars, concvars, gssvars >>
    \/ \E fname \in FNames, args \in ArgLists, engine_outcome \in EngineOutcomes :
          Call(fname, args, engine_outcome)
          /\ UNCHANGED << dbvars, readvars, revvars, streamvars, concvars, gssvars >>
    \/ \E value \in CapabilityValues :
          CapabilityFromUint(value)
          /\ UNCHANGED << dbvars, readvars, revvars, streamvars, concvars, gssvars >>
    \/ \E pair_id \in PairIds, engine_outcome \in EngineOutcomes :
          GetCapabilities(pair_id, engine_outcome)
          /\ UNCHANGED << dbvars, readvars, revvars, streamvars, concvars, gssvars >>

SpecVm == Init /\ [][NextVm]_vars

\* C24: for a TransactionError with gas_used and gas_limit both known,
\* maybe_coerce_error returns OutOfGas with the pool state exactly when
\* 100 * gas_used >= 97 * gas_limit, whatever the payload; below that the
\* result is a TransactionError with the same gas_used.
C24_OutOfGasThreshold ==
    fn_call.op = "maybe_coerce_error"
    /\ fn_call.arg.err.tag = "TransactionError"
    /\ IsSome(fn_call.arg.err.gas_used) /\ IsSome(fn_call.arg.gas_limit)
        => IF 100 * Unwrap(fn_call.arg.err.gas_used) >= 97 * Unwrap(fn_call.arg.gas_limit)
           THEN fn_ret.tag = "OutOfGas" /\ fn_ret.pool_state = fn_call.arg.pool_state
           ELSE fn_ret.tag = "TransactionError"
                /\ fn_ret.gas_used = fn_call.arg.err.gas_used

\* the panic table of the documentation: 0x31 is EmptyArray
PanicTable ==
    [c \in {0, 1, 17, 18, 33, 34, 49, 50, 65, 81} |->
        CASE c = 0 -> "GenericCompilerPanic"
          [] c = 1 -> "AssertionError"
          [] c = 17 -> "ArithmeticOver/Underflow"
          [] c = 18 -> "ZeroDivisionError"
          [] c = 33 -> "UnknownEnumMember"
          [] c = 34 -> "BadStorageByteArrayEncoding"
          [] c = 49 -> "EmptyArray"
          [] c = 50 -> "OutOfBounds"
          [] c = 65 -> "OutOfMemory"
          [] c = 81 -> "BadFunctionPointer"]

\* C25: a payload of the Panic(uint256) selector and a 256-bit code parses to
\* the table's name for the ten listed codes and to Panic(<code>) for every
\* other code.
C25_PanicCodeTable ==
    fn_call.op = "parse_solidity_error_message"
    /\ fn_call.arg.hex_ok /\ fn_call.arg.first4 = PanicSelector /\ fn_call.arg.after4 = "uint"
        => LET code == fn_call.arg.code
           IN IF code.over = 0 /\ code.low \in DOMAIN PanicTable
              THEN fn_ret = Ok(PanicTable[code.low])
              ELSE fn_ret = Ok(<< "Panic(", code, ")" >>)

\* no decoding of the payload succeeds
NothingDecodes(data) ==
    \/ ~data.hex_ok
    \/ /\ decode_string_full(data).tag = "Err"
       /\ decode_string_after4(data).tag = "Err"
       /\ ~(data.len >= 4 /\ data.first4 = PanicSelector /\ decode_uint_after4(data).tag = "Ok")

\* C29: parse_solidity_error_message returns for every payload that starts
\* with "0x", with "Failed to decode: <data>" when nothing decodes, and
\* maybe_coerce_error returns an error value for every TransactionError.
C29_ParseNeverAborts ==
    /\ fn_call.op = "parse_solidity_error_message"
          => /\ fn_ret # Panicked
             /\ NothingDecodes(fn_call.arg) => fn_ret = Ok(FailedToDecode(fn_call.arg))
    /\ fn_call.op = "maybe_coerce_error" => fn_ret # Panicked

\* C26: when the simulation succeeds and its return bytes do not decode,
\* call returns a success response with an empty return_value and the
\* engine's result as simulation_result; call returns an error only when
\* encoding the input or the simulation fails.
C26_DecodeFailureIsSuccess ==
    fn_call.op = "call"
        => LET fname == fn_call.arg.fname
               args == fn_call.arg.args
               engine_outcome == fn_call.arg.engine_outcome
           IN /\ (/\ encode_input(fname, args).tag = "Ok"
                  /\ engine_outcome.tag = "Ok"
                  /\ ~engine_outcome.val.result.decodes)
                    => /\ fn_ret.tag = "Ok"
                       /\ fn_ret.val.return_value = << >>
                       /\ fn_ret.val.simulation_result = engine_outcome.val
              /\ fn_ret.tag = "Err"
                    => \/ encode_input(fname, args).tag = "Err"
                       \/ engine_outcome.tag = "Err"

\* a call whose simulation used gas and changed state and returned bytes that
\* do not decode
C26_Witness ==
    /\ fn_call.op = "call"
    /\ fn_call.arg.engine_outcome.tag = "Ok"
    /\ ~fn_call.arg.engine_outcome.val.result.decodes
    /\ fn_call.arg.engine_outcome.val.state_updates # "no updates"
    /\ fn_ret.tag = "Ok"
    /\ fn_ret.val.simulation_result.gas_used = 50000

\* the values the adapter returned: the Uint tokens of the decoded return
\* value and the elements of its arrays
ReturnedValues(tokens) ==
    {tokens[i].uint : i \in {j \in DOMAIN tokens : tokens[j].token = "Uint"}}
    \cup UNION {{tokens[i].array[k].uint : k \in DOMAIN tokens[i].array} :
                   i \in {j \in DOMAIN tokens : tokens[j].token = "Array"}}

InRange(value) == value.over = 0 /\ value.low \in 1..9

\* C27: from_uint(v) is the capability numbered v for 1 <= v <= 9 and a
\* DecodingError for every other v, and get_capabilities fails with the
\* decoding error when a returned value is outside 1..9.
C27_CapabilityDecoding ==
    /\ fn_call.op = "from_uint"
          => IF InRange(fn_call.arg)
             THEN fn_ret = Ok(Capability[fn_call.arg.low])
             ELSE fn_ret.tag = "Err" /\ fn_ret.val.tag = "DecodingError"
    /\ (/\ fn_call.op = "get_capabilities"
        /\ fn_call.arg.pair_id.hex_ok
        /\ fn_call.arg.engine_outcome.tag = "Ok"
        /\ fn_call.arg.engine_outcome.val.result.decodes
        /\ \E v \in ReturnedValues(fn_call.arg.engine_outcome.val.result.tokens) : ~InRange(v))
          => fn_ret.tag = "Err" /\ fn_ret.val.tag = "DecodingError"
====
